---- MODULE Spec2Model ----
(***************************************************************************)
(* A model of the 2D scene-graph engine: the Vec2 / Matrix2D arithmetic of *)
(* engine/math.ts, the GameObject hierarchy and its lazy world transforms, *)
(* the InputManager's per-frame key snapshot and the Game loop.            *)
(*                                                                         *)
(* Numbers.  A JavaScript number is modelled as an exact rational <<n, d>> *)
(* in lowest terms with d > 0, so that equality of two model numbers is    *)
(* equality of their values.  Angles are whole quarter turns, for which    *)
(* cos and sin are exactly -1, 0 or 1.                                     *)
(***************************************************************************)
EXTENDS Integers, Sequences, FiniteSets, TLC

VARIABLES
    objs,       \* the heap of GameObjects: node id -> record of its fields
    last,       \* the hierarchy call made by the last step, if it was one
    calls,      \* number of calls made so far, where a specification budgets them
    mats,       \* operands of the matrix algebra specification
    game,       \* the Game: its fields and the position of loop() in the frame
    input,      \* the InputManager: keysDown and keysDownLastFrame
    hist,       \* the keys held when the previous iteration ran, and the edges since
    log,        \* what the current loop iteration has done so far, in order
    assets,     \* the AssetsManager, the loads under way and the events emitted
    cam         \* the Camera and the arguments of the call made on it

frameVars == <<game, input, hist, log>>

vars == <<objs, last, calls, mats, frameVars, assets, cam>>

----------------------------------------------------------------------------
(* Bounds of the model *)

\* number of GameObjects that exist
NumNodes == 3

\* coordinates, scale factors and matrix entries are drawn from 0..MaxCoord
MaxCoord == 1

\* number of calls on the scene graph in a run of the transform specification
MaxCalls == 3

\* iterations of the game loop
MaxFrames == 3

\* calls of the load methods of the AssetsManager
MaxTasks == 2

\* calls of the camera's onUpdate
MaxTicks == 2

Nodes == 1..NumNodes

\* the null reference
Null == 0

----------------------------------------------------------------------------
(* JavaScript numbers as exact rationals *)

Abs(i) == IF i < 0 THEN -i ELSE i

RECURSIVE Gcd(_, _)
Gcd(i, j) == IF j = 0 THEN i ELSE Gcd(j, i % j)

\* the rational n/d in lowest terms (d # 0)
Norm(n, d) ==
    IF d = 1 THEN <<n, 1>>
    ELSE LET g == Gcd(Abs(n), Abs(d))
             s == IF d < 0 THEN -1 ELSE 1
         IN  <<(s * n) \div g, (s * d) \div g>>

Num(i) == <<i, 1>>

NAdd(x, y) == IF x[2] = 1 /\ y[2] = 1 THEN <<x[1] + y[1], 1>>
              ELSE Norm(x[1] * y[2] + y[1] * x[2], x[2] * y[2])

NNeg(x) == <<-x[1], x[2]>>

NSub(x, y) == NAdd(x, NNeg(y))

NMul(x, y) == IF x[2] = 1 /\ y[2] = 1 THEN <<x[1] * y[1], 1>>
              ELSE Norm(x[1] * y[1], x[2] * y[2])

\* x / y for y # 0
NDiv(x, y) == Norm(x[1] * y[2], x[2] * y[1])

NLt(x, y) == x[1] * y[2] < y[1] * x[2]

\* Math.sqrt on the numbers whose root is a fraction
IsSquare(k) == \E r \in 0..k : r * r = k
Root(k) == CHOOSE r \in 0..k : r * r = k
HasSqrt(x) == x[1] >= 0 /\ IsSquare(x[1]) /\ IsSquare(x[2])
Sqrt(x) == Norm(Root(x[1]), Root(x[2]))

Zero == Num(0)
One == Num(1)

\* Math.cos and Math.sin of q quarter turns
Cos(q) == Num(<<1, 0, -1, 0>>[(q % 4) + 1])
Sin(q) == Num(<<0, 1, 0, -1>>[(q % 4) + 1])

----------------------------------------------------------------------------
(* Vec2 *)

Vec(x, y) == [x |-> x, y |-> y]

VecI(i, j) == Vec(Num(i), Num(j))

----------------------------------------------------------------------------
(* Matrix2D *)

Mat(a, b, c, d, tx, ty) == [a |-> a, b |-> b, c |-> c, d |-> d, tx |-> tx, ty |-> ty]

identity == Mat(One, Zero, Zero, One, Zero, Zero)

\* this = this * other, as the code computes it
append(m, o) ==
    Mat(NAdd(NMul(m.a, o.a), NMul(m.b, o.c)),
        NAdd(NMul(m.a, o.b), NMul(m.b, o.d)),
        NAdd(NMul(m.c, o.a), NMul(m.d, o.c)),
        NAdd(NMul(m.c, o.b), NMul(m.d, o.d)),
        NAdd(NAdd(NMul(m.a, o.tx), NMul(m.b, o.ty)), m.tx),
        NAdd(NAdd(NMul(m.c, o.tx), NMul(m.d, o.ty)), m.ty))

\* this = other * this, as the code computes it
prepend(m, o) == append(o, m)

translate(m, x, y) ==
    [m EXCEPT !.tx = NAdd(m.tx, NAdd(NMul(m.a, x), NMul(m.c, y))),
              !.ty = NAdd(m.ty, NAdd(NMul(m.b, x), NMul(m.d, y)))]

scale(m, x, y) ==
    [m EXCEPT !.a = NMul(m.a, x), !.b = NMul(m.b, x),
              !.c = NMul(m.c, y), !.d = NMul(m.d, y)]

\* angle q in quarter turns
rotate(m, q) ==
    LET cos == Cos(q)
        sin == Sin(q)
    IN  [m EXCEPT !.a = NSub(NMul(m.a, cos), NMul(m.c, sin)),
                  !.b = NSub(NMul(m.b, cos), NMul(m.d, sin)),
                  !.c = NAdd(NMul(m.a, sin), NMul(m.c, cos)),
                  !.d = NAdd(NMul(m.b, sin), NMul(m.d, cos))]

\* a plausible slip: a matrix without an inverse is left as it is
invertKeepSingular(m) ==
    LET determinant == NSub(NMul(m.a, m.d), NMul(m.b, m.c))
    IN  IF determinant = Zero THEN m
        ELSE LET invDet == NDiv(One, determinant)
             IN  Mat(NMul(m.d, invDet),
                     NMul(NNeg(m.b), invDet),
                     NMul(NNeg(m.c), invDet),
                     NMul(m.a, invDet),
                     NMul(NSub(NMul(m.c, m.ty), NMul(m.d, m.tx)), invDet),
                     NMul(NSub(NMul(m.b, m.tx), NMul(m.a, m.ty)), invDet))

\* a plausible slip: the translation is negated, not carried through the
\* inverse of the linear part
invertNegatedTranslation(m) ==
    LET determinant == NSub(NMul(m.a, m.d), NMul(m.b, m.c))
    IN  IF determinant = Zero THEN identity
        ELSE LET invDet == NDiv(One, determinant)
             IN  Mat(NMul(m.d, invDet),
                     NMul(NNeg(m.b), invDet),
                     NMul(NNeg(m.c), invDet),
                     NMul(m.a, invDet),
                     NNeg(m.tx),
                     NNeg(m.ty))

invert(m) ==
    LET determinant == NSub(NMul(m.a, m.d), NMul(m.b, m.c))
    IN  IF determinant = Zero THEN identity
        ELSE LET invDet == NDiv(One, determinant)
             IN  Mat(NMul(m.d, invDet),
                     NMul(NNeg(m.b), invDet),
                     NMul(NNeg(m.c), invDet),
                     NMul(m.a, invDet),
                     NMul(NSub(NMul(m.c, m.ty), NMul(m.d, m.tx)), invDet),
                     NMul(NSub(NMul(m.b, m.tx), NMul(m.a, m.ty)), invDet))

transformPoint(m, x, y) ==
    Vec(NAdd(NAdd(NMul(m.a, x), NMul(m.c, y)), m.tx),
        NAdd(NAdd(NMul(m.b, x), NMul(m.d, y)), m.ty))

transformVec2(m, v) ==
    Vec(NAdd(NAdd(NMul(m.a, v.x), NMul(m.c, v.y)), m.tx),
        NAdd(NAdd(NMul(m.b, v.x), NMul(m.d, v.y)), m.ty))

----------------------------------------------------------------------------
(* GameObject: fields after construction *)

NewObject ==
    [ parent          |-> Null,
      children        |-> <<>>,
      _position       |-> VecI(0, 0),
      _scale          |-> VecI(1, 1),
      _rotation       |-> 0,
      isDirty         |-> TRUE,
      localTransform  |-> identity,
      worldTransform  |-> identity,
      visible         |-> TRUE,
      zIndex          |-> 0,
      _childIndex     |-> 0,
      childIndexDirty |-> FALSE ]

\* Array.prototype.indexOf, 1-based; 0 when absent
RECURSIVE indexFrom(_, _, _)
indexFrom(s, x, i) ==
    IF i > Len(s) THEN 0
    ELSE IF s[i] = x THEN i
    ELSE indexFrom(s, x, i + 1)

indexOf(s, x) == indexFrom(s, x, 1)

\* Array.prototype.splice(index, 1)
splice(s, i) == SubSeq(s, 1, i - 1) \o SubSeq(s, i + 1, Len(s))

\* the walk of isDescendantOf up the parent references, from current
RECURSIVE walkUp(_, _, _)
walkUp(h, current, target) ==
    IF current = Null THEN FALSE
    ELSE IF current = target THEN TRUE
    ELSE walkUp(h, h[current].parent, target)

\* a plausible slip: only the direct parent is compared
isDescendantOfParentOnly(h, n, target) == h[n].parent = target

isDescendantOf(h, n, target) == walkUp(h, h[n].parent, target)

\* a plausible slip: the flag is set without propagating to the children
setDirtyNoPropagate(h, n) == [h EXCEPT ![n].isDirty = TRUE]

RECURSIVE setDirty(_, _), setDirtyFrom(_, _, _)
setDirty(h, n) ==
    IF h[n].isDirty THEN h
    ELSE setDirtyFrom([h EXCEPT ![n].isDirty = TRUE], h[n].children, 1)

\* the loop of setDirty over the children list cs, from index i
setDirtyFrom(h, cs, i) ==
    IF i > Len(cs) THEN h
    ELSE setDirtyFrom(setDirty(h, cs[i]), cs, i + 1)

setChildIndexDirty(h, n) == [h EXCEPT ![n].childIndexDirty = TRUE]

\* a plausible slip: the parent reference of the removed child is kept
removeChildKeepParent(h, n, child) ==
    LET index == indexOf(h[n].children, child)
        h1 == IF index > 0
              THEN setDirty([h EXCEPT ![n].children = splice(@, index)], child)
              ELSE h
    IN  setChildIndexDirty(h1, n)

removeChild(h, n, child) ==
    LET index == indexOf(h[n].children, child)
        h1 == IF index > 0
              THEN setDirty([h EXCEPT ![child].parent = Null,
                                      ![n].children = splice(@, index)], child)
              ELSE h
    IN  setChildIndexDirty(h1, n)

\* result of addChild: the heap afterwards, and whether the call threw
addChild(h, n, child) ==
    IF child = n \/ isDescendantOf(h, n, child)
    THEN [h |-> h, thrown |-> TRUE]
    ELSE LET h1 == IF h[child].parent # Null
                   THEN removeChild(h, h[child].parent, child)
                   ELSE h
             h2 == [h1 EXCEPT ![child].parent = n,
                              ![n].children = Append(@, child)]
             h3 == setDirty(h2, child)
         IN  [h |-> setChildIndexDirty(h3, n), thrown |-> FALSE]

\* destroy: forEach visits index k of the live children array for k below the
\* length the array had when forEach started, skipping indices that no
\* longer exist
RECURSIVE destroy(_, _), destroyEach(_, _, _, _)
destroy(h, n) ==
    LET h1 == IF h[n].parent # Null THEN removeChild(h, h[n].parent, n) ELSE h
    IN  destroyEach(h1, n, 0, Len(h1[n].children))

destroyEach(h, n, k, len) ==
    IF k >= len THEN h
    ELSE IF k < Len(h[n].children)
         THEN destroyEach(destroy(h, h[n].children[k + 1]), n, k + 1, len)
         ELSE destroyEach(h, n, k + 1, len)

----------------------------------------------------------------------------
(* GameObject: transforms *)

\* the only element of a one-element set; {F(x) : x \in {e}} computes e once
The(S) == CHOOSE x \in S : TRUE

\* the local matrix of an object o: translate, rotate, scale
localOf(o) ==
    The({The({scale(r, o._scale.x, o._scale.y) : r \in {rotate(t, o._rotation)}}) :
            t \in {translate(identity, o._position.x, o._position.y)}})

\* updateTransform once the parent is resolved in h1
resolve(h1, n, local) ==
    [h1 EXCEPT ![n].localTransform = local,
               ![n].worldTransform =
                   IF h1[n].parent # Null
                   THEN append(h1[h1[n].parent].worldTransform, local)
                   ELSE local,
               ![n].isDirty = FALSE]

\* a plausible slip: the parent is not resolved first
updateTransformSelfOnly(h, n) ==
    IF ~h[n].isDirty THEN h ELSE resolve(h, n, localOf(h[n]))

RECURSIVE updateTransform(_, _)
updateTransform(h, n) ==
    IF ~h[n].isDirty THEN h
    ELSE The({The({resolve(h1, n, local) : local \in {localOf(h1[n])}}) :
                 h1 \in {IF h[n].parent # Null
                         THEN updateTransform(h, h[n].parent)
                         ELSE h}})

\* Vec2.set on _position with the onChange callback (setDirty) bound to n
setPosition(h, n, v) ==
    IF h[n]._position.x # v.x \/ h[n]._position.y # v.y
    THEN setDirty([h EXCEPT ![n]._position = v], n)
    ELSE h

\* Vec2.set on _scale with the onChange callback (setDirty) bound to n
setScale(h, n, v) ==
    IF h[n]._scale.x # v.x \/ h[n]._scale.y # v.y
    THEN setDirty([h EXCEPT ![n]._scale = v], n)
    ELSE h

setRotation(h, n, q) ==
    IF h[n]._rotation # q
    THEN setDirty([h EXCEPT ![n]._rotation = q], n)
    ELSE h

\* the getters resolve the transform: they return the heap afterwards and the value
getGlobalPosition(h, n) ==
    LET h1 == updateTransform(h, n)
    IN  [h |-> h1, v |-> Vec(h1[n].worldTransform.tx, h1[n].worldTransform.ty)]

localToGlobalPosition(h, n, localPos) ==
    LET h1 == updateTransform(h, n)
    IN  [h |-> h1, v |-> transformVec2(h1[n].worldTransform, localPos)]

\* a plausible slip: the world transform is applied without being inverted
globalToLocalPositionForward(h, n, globalPos) ==
    LET h1 == updateTransform(h, n)
    IN  [h |-> h1, v |-> transformVec2(h1[n].worldTransform, globalPos)]

globalToLocalPosition(h, n, globalPos) ==
    LET h1 == updateTransform(h, n)
        inverseWorld == invert(h1[n].worldTransform)
    IN  [h |-> h1, v |-> transformVec2(inverseWorld, globalPos)]

setGlobalPosition(h, n, value) ==
    LET r == globalToLocalPosition(h, n, value)
    IN  setPosition(r.h, n, r.v)

----------------------------------------------------------------------------------------------------------------------------------------
(* The scene graph as a state machine: calls made on the GameObjects *)

\* values that the callers assign
Points == {VecI(0, 0), VecI(MaxCoord, MaxCoord)}
Scales == {VecI(1, 1), VecI(MaxCoord + 1, 1)}
Rotations == {0, 1}

\* a call on the scene graph: operation, receiver, node argument, the parent
\* that argument had before the call, value argument, whether the call threw
Call(op, n, c, from, v, thrown) ==
    [op |-> op, n |-> n, c |-> c, from |-> from, v |-> v, thrown |-> thrown]

NoCall == Call("none", Null, Null, Null, VecI(0, 0), FALSE)

NoMats == <<>>

\* the urls and alias names that the callers use; NoName is a call without
\* a name, Absent what Map.get gives for a missing key
Urls == {"a.json", "b.png"}
Names == {"hero"}
NoName == ""
Absent == 0
NoUrl == ""

\* the AssetsManager as its constructor leaves it: nothing cached, no alias;
\* with it the calls of the load methods that have not returned to their
\* caller yet (tasks), the events emitted so far, the number of asset
\* objects created so far, and the counters of the loadAll call
NewAssets ==
    [ cache   |-> [u \in Urls |-> Absent],
      nameMap |-> [k \in Names |-> NoUrl],
      tasks   |-> <<>>,
      emitted |-> <<>>,
      made    |-> 0,
      loaded  |-> 0,
      total   |-> 0,
      batch   |-> "none" ]

NoCam == <<>>

\* the Game as its constructor leaves it, before start(): no loop call is
\* pending; pc is where loop() stands, stack the for-of iterators of the
\* pass under way (node, number of children already taken), ri the
\* iterator of the render loop, frame the number of iterations completed
NewGame ==
    [ alive       |-> TRUE,
      hasCtx      |-> FALSE,
      scheduled   |-> FALSE,
      pc          |-> "idle",
      stack       |-> <<>>,
      renderQueue |-> <<>>,
      ri          |-> 0,
      frame       |-> 0 ]

\* the InputManager as its constructor leaves it
NewInput == [keysDown |-> {}, keysDownLastFrame |-> {}]

\* iter counts the iterations before the one that hist describes
NoHist == [iter |-> 0, held |-> {}, pressed |-> {}, released |-> {}]

InitFrame ==
    /\ game = NewGame
    /\ input = NewInput
    /\ hist = NoHist
    /\ log = <<>>

\* every GameObject as its constructor leaves it
Fresh == [n \in Nodes |-> NewObject]

\* the chain 1 > 2 > ... built with addChild from node k on
RECURSIVE chainFrom(_, _)
chainFrom(h, k) ==
    IF k >= NumNodes THEN h
    ELSE chainFrom(addChild(h, k, k + 1).h, k + 1)

\* a scene that was built and then drawn once: the chain with every
\* transform resolved and every children list sorted by the update pass
Scene ==
    LET h == updateTransform(chainFrom(Fresh, 1), NumNodes)
    IN  [n \in Nodes |-> [h[n] EXCEPT !.childIndexDirty = FALSE]]

InitObjects ==
    /\ objs = Fresh
    /\ last = NoCall
    /\ calls = 0
    /\ mats = NoMats
    /\ assets = NewAssets
    /\ cam = NoCam
    /\ InitFrame

InitTransform ==
    /\ objs \in {Fresh, Scene}
    /\ last = NoCall
    /\ calls = 0
    /\ mats = NoMats
    /\ assets = NewAssets
    /\ cam = NoCam
    /\ InitFrame

AddChild(n, c) ==
    LET r == addChild(objs, n, c)
    IN  /\ objs' = r.h
        /\ last' = Call("addChild", n, c, objs[c].parent, VecI(0, 0), r.thrown)
        /\ UNCHANGED <<mats, frameVars, assets, cam>>

RemoveChild(n, c) ==
    /\ objs' = removeChild(objs, n, c)
    /\ last' = Call("removeChild", n, c, objs[c].parent, VecI(0, 0), FALSE)
    /\ UNCHANGED <<mats, frameVars, assets, cam>>

Destroy(n) ==
    /\ objs' = destroy(objs, n)
    /\ last' = Call("destroy", n, Null, objs[n].parent, VecI(0, 0), FALSE)
    /\ UNCHANGED <<mats, frameVars, assets, cam>>

GetGlobalPosition(n) ==
    /\ objs' = getGlobalPosition(objs, n).h
    /\ last' = NoCall
    /\ UNCHANGED <<mats, frameVars, assets, cam>>

SetPosition(n, v) ==
    /\ objs' = setPosition(objs, n, v)
    /\ last' = NoCall
    /\ UNCHANGED <<mats, frameVars, assets, cam>>

SetScale(n, v) ==
    /\ objs' = setScale(objs, n, v)
    /\ last' = NoCall
    /\ UNCHANGED <<mats, frameVars, assets, cam>>

SetRotation(n, q) ==
    /\ objs' = setRotation(objs, n, q)
    /\ last' = NoCall
    /\ UNCHANGED <<mats, frameVars, assets, cam>>

SetGlobalPosition(n, v) ==
    /\ objs' = setGlobalPosition(objs, n, v)
    /\ last' = Call("globalPosition=", n, Null, Null, v, FALSE)
    /\ UNCHANGED <<mats, frameVars, assets, cam>>

\* the hierarchy: attach, detach, destroy
Next ==
    \/ \E n, c \in Nodes : AddChild(n, c) /\ UNCHANGED calls
    \/ \E n, c \in Nodes : RemoveChild(n, c) /\ UNCHANGED calls
    \/ \E n \in Nodes : Destroy(n) /\ UNCHANGED calls

Spec == InitObjects /\ [][Next]_vars

\* one more call, while the budget of calls lasts
Tick == calls < MaxCalls /\ calls' = calls + 1

\* the hierarchy together with assignments of local and global state; the
\* rejected and the no-effect hierarchy calls are those of Next
NextTransform ==
    \/ \E n, c \in Nodes : Tick /\ c # n /\ AddChild(n, c)
    \/ \E n, c \in Nodes : Tick /\ objs[c].parent = n /\ RemoveChild(n, c)
    \/ \E n \in Nodes : Tick /\ GetGlobalPosition(n)
    \/ \E n \in Nodes, v \in Points : Tick /\ SetPosition(n, v)
    \/ \E n \in Nodes, v \in Scales : Tick /\ SetScale(n, v)
    \/ \E n \in Nodes, q \in Rotations : Tick /\ SetRotation(n, q)
    \/ \E n \in Nodes, v \in Points : Tick /\ SetGlobalPosition(n, v)

SpecTransform == InitTransform /\ [][NextTransform]_vars

----------------------------------------------------------------------------
(* Properties of the hierarchy *)

\* the nodes below n: those whose walk up the parent references meets n
Descendants(h, n) == {d \in Nodes : walkUp(h, h[d].parent, n)}

\* the k-th node on the way up from n (n itself for k = 0), Null past the top
RECURSIVE AncestorAt(_, _, _)
AncestorAt(h, n, k) ==
    IF n = Null \/ k = 0 THEN n ELSE AncestorAt(h, h[n].parent, k - 1)

Occurrences(s, x) == Cardinality({i \in 1..Len(s) : s[i] = x})

\* C1: addChild(node) on N with node = N or node an ancestor of N throws, and
\* every parent reference and every children list is as before the call.
C1_CycleRejected ==
    [][\A n, c \in Nodes :
          (/\ last'.op = "addChild" /\ last'.n = n /\ last'.c = c
           /\ (c = n \/ c \in {AncestorAt(objs, n, k) : k \in 1..NumNodes}))
          => /\ last'.thrown
             /\ \A k \in Nodes : /\ objs'[k].parent = objs[k].parent
                                 /\ objs'[k].children = objs[k].children]_vars

\* an addChild of a grandparent under its grandchild has just been rejected
C1_Witness ==
    /\ last.op = "addChild" /\ last.thrown
    /\ objs[last.n].parent # Null
    /\ objs[objs[last.n].parent].parent = last.c

\* C2: N.parent = P iff N occurs in P.children; it occurs there exactly once
\* and in no other children list; the parent references form no cycle.
C2_TreeInvariant ==
    /\ \A n, p \in Nodes :
          (objs[n].parent = p) <=> (Occurrences(objs[p].children, n) > 0)
    /\ \A n, p \in Nodes : Occurrences(objs[p].children, n) <= 1
    /\ \A n \in Nodes :
          Cardinality({p \in Nodes : Occurrences(objs[p].children, n) > 0}) <= 1
    /\ \A n \in Nodes : \A k \in 1..NumNodes : AncestorAt(objs, n, k) # n

\* a node has just been added again to the parent it already had, which has
\* another child as well
C2_Witness ==
    /\ last.op = "addChild" /\ ~last.thrown /\ last.from = last.n
    /\ Len(objs[last.n].children) = 2

\* C4 as claimed: after N.destroy(), N has no parent and every node that was a
\* descendant of N is detached (no parent, no children).
C4_DestroyDetachesAll ==
    [][\A n \in Nodes :
          (last'.op = "destroy" /\ last'.n = n)
          => /\ objs'[n].parent = Null
             /\ \A d \in Descendants(objs, n) :
                   objs'[d].parent = Null /\ objs'[d].children = <<>>]_vars

----------------------------------------------------------------------------
(* Properties of the transforms *)

\* the heap with every cached transform declared stale
AllDirty(h) == [k \in Nodes |-> [h[k] EXCEPT !.isDirty = TRUE]]

\* C3: reading globalPosition of any node returns what recomputing every
\* transform from the current local state of the node and its ancestors gives.
C3_NoStaleRead ==
    \A n \in Nodes :
        getGlobalPosition(objs, n).v = getGlobalPosition(AllDirty(objs), n).v

\* a node below a parent holds a cached world transform that is out of date
\* (an ancestor moved, or the node was reparented, since it was resolved)
C3_Witness ==
    \E n \in Nodes :
        /\ objs[n].parent # Null
        /\ calls > 0
        /\ objs[n].worldTransform # updateTransform(AllDirty(objs), n)[n].worldTransform
        /\ objs[objs[n].parent].worldTransform
               # updateTransform(AllDirty(objs), n)[objs[n].parent].worldTransform

\* C5 as claimed: for N with parent P, N.globalPosition equals
\* P.localToGlobalPosition(N.position).
C5_GlobalIsParentOfLocal ==
    \A n \in Nodes :
        objs[n].parent # Null
        => getGlobalPosition(objs, n).v
               = localToGlobalPosition(objs, objs[n].parent, objs[n]._position).v

\* C7 as claimed: after N.globalPosition = v, reading N.globalPosition gives v.
C7_GlobalPositionRoundTrip ==
    last.op = "globalPosition=" => getGlobalPosition(objs, last.n).v = last.v

----------------------------------------------------------------------------
(* Matrix2D as a state machine: a matrix, an operand, a point, and the
   result of the operation applied to a clone of the matrix *)

\* the matrices with linear entries in L and translation entries in T
MatricesOver(L, T) ==
    {Mat(Num(a), Num(b), Num(c), Num(d), Num(tx), Num(ty)) :
        a \in L, b \in L, c \in L, d \in L, tx \in T, ty \in T}

Matrices == MatricesOver({-1, 0, 1}, {0, 1})
Operands == MatricesOver({0, 1}, {0, 1})
TestPoints == {VecI(0, 0), VecI(1, 0), VecI(0, 1)}

InitMatrix ==
    /\ objs = Fresh
    /\ last = NoCall
    /\ calls = 0
    /\ mats \in {[m |-> m, o |-> o, p |-> p, r |-> m, op |-> "new"] :
                    m \in Matrices, o \in Operands, p \in TestPoints}
    /\ assets = NewAssets
    /\ cam = NoCam
    /\ InitFrame

\* r = m.clone().append(o)
AppendMatrix ==
    /\ mats.op = "new"
    /\ mats' = [mats EXCEPT !.r = append(mats.m, mats.o), !.op = "append"]
    /\ UNCHANGED <<objs, last, calls, frameVars, assets, cam>>

\* r = m.clone().invert()
InvertMatrix ==
    /\ mats.op = "new"
    /\ mats' = [mats EXCEPT !.r = invert(mats.m), !.op = "invert"]
    /\ UNCHANGED <<objs, last, calls, frameVars, assets, cam>>

\* r = m.clone().invert().invert()
InvertBack ==
    /\ mats.op = "invert"
    /\ mats' = [mats EXCEPT !.r = invert(mats.r), !.op = "invert.invert"]
    /\ UNCHANGED <<objs, last, calls, frameVars, assets, cam>>

\* r = m.clone().translate(x, y), o = new Matrix2D().translate(x, y)
TranslateMatrix(v) ==
    /\ mats.op = "new"
    /\ mats' = [mats EXCEPT !.r = translate(mats.m, v.x, v.y),
                            !.o = translate(identity, v.x, v.y),
                            !.op = "translate"]
    /\ UNCHANGED <<objs, last, calls, frameVars, assets, cam>>

\* r = m.clone().scale(x, y), o = new Matrix2D().scale(x, y)
ScaleMatrix(v) ==
    /\ mats.op = "new"
    /\ mats' = [mats EXCEPT !.r = scale(mats.m, v.x, v.y),
                            !.o = scale(identity, v.x, v.y),
                            !.op = "scale"]
    /\ UNCHANGED <<objs, last, calls, frameVars, assets, cam>>

\* r = m.clone().rotate(q), o = new Matrix2D().rotate(q)
RotateMatrix(q) ==
    /\ mats.op = "new"
    /\ mats' = [mats EXCEPT !.r = rotate(mats.m, q),
                            !.o = rotate(identity, q),
                            !.op = "rotate"]
    /\ UNCHANGED <<objs, last, calls, frameVars, assets, cam>>

NextMatrix ==
    \/ AppendMatrix
    \/ InvertMatrix
    \/ InvertBack
    \/ \E v \in TestPoints : TranslateMatrix(v)
    \/ \E v \in Scales : ScaleMatrix(v)
    \/ \E q \in Rotations : RotateMatrix(q)

SpecMatrix == InitMatrix /\ [][NextMatrix]_vars

\* C6 as claimed: A.clone().append(B).transformPoint(p) equals
\* A.transformPoint(B.transformPoint(p)).
C6_AppendComposes ==
    mats.op = "append"
    => transformPoint(mats.r, mats.p.x, mats.p.y)
           = LET q == transformPoint(mats.o, mats.p.x, mats.p.y)
             IN  transformPoint(mats.m, q.x, q.y)

----------------------------------------------------------------------------
(* InputManager: the key sets *)

Keys == {"KeyW", "Space"}

\* the keydown listener: a repeat of a key already down changes nothing
handleKeyDown(inp, code) ==
    IF code \notin inp.keysDown
    THEN [inp EXCEPT !.keysDown = @ \cup {code}]
    ELSE inp

handleKeyUp(inp, code) == [inp EXCEPT !.keysDown = @ \ {code}]

\* InputManager.update: keysDownLastFrame becomes a copy of keysDown
input_update(inp) == [inp EXCEPT !.keysDownLastFrame = inp.keysDown]

isKeyDown(inp, key) == key \in inp.keysDown

wasKeyPressed(inp, key) ==
    key \in inp.keysDown /\ key \notin inp.keysDownLastFrame

wasKeyReleased(inp, key) ==
    key \notin inp.keysDown /\ key \in inp.keysDownLastFrame

----------------------------------------------------------------------------
(* Game.loop, one step per hook invocation *)

\* the root of the tree that loop() traverses
Stage == 1

\* values that the callers assign to zIndex and childIndex
ZIndexes == {0, 1}
ChildIndexes == {0, 1}

\* an entry of the log: what was done, on which node, and what an update or
\* physics hook that polls the input for every key is answered
Event(ev, n, pressed, released) ==
    [ev |-> ev, n |-> n, pressed |-> pressed, released |-> released]

Step(ev, n) == Event(ev, n, {}, {})

Hook(ev, n, inp) ==
    Event(ev, n, {k \in Keys : wasKeyPressed(inp, k)},
                 {k \in Keys : wasKeyReleased(inp, k)})

\* a plausible slip: an element is placed before the elements of equal key
insertBeforeEquals(s, x, key) ==
    LET p == Cardinality({i \in 1..Len(s) : key[s[i]] < key[x]})
    IN  SubSeq(s, 1, p) \o <<x>> \o SubSeq(s, p + 1, Len(s))

\* Array.prototype.sort with the comparator key(a) - key(b) is stable: x goes
\* behind every element of the sorted s whose key is not larger
insert(s, x, key) ==
    LET p == Cardinality({i \in 1..Len(s) : key[s[i]] <= key[x]})
    IN  SubSeq(s, 1, p) \o <<x>> \o SubSeq(s, p + 1, Len(s))

RECURSIVE sortFrom(_, _, _, _)
sortFrom(s, i, acc, key) ==
    IF i > Len(s) THEN acc
    ELSE sortFrom(s, i + 1, insert(acc, s[i], key), key)

sort(s, key) == sortFrom(s, 1, <<>>, key)

\* the array that the for-of loop of a stack entry runs over; the entry
\* with node Null is loop()'s own call on the stage
kids(h, n) == IF n = Null THEN <<Stage>> ELSE h[n].children

RootCall == <<[n |-> Null, i |-> 0]>>

\* return from every call whose for-of loop has reached the end of its array
RECURSIVE unwind(_, _)
unwind(h, st) ==
    IF st = <<>> THEN st
    ELSE IF st[Len(st)].i < Len(kids(h, st[Len(st)].n)) THEN st
    ELSE unwind(h, SubSeq(st, 1, Len(st) - 1))

\* the for-of loop of the innermost call takes its next child
descend(st, c) ==
    Append([st EXCEPT ![Len(st)].i = @ + 1], [n |-> c, i |-> 0])

\* a plausible slip: the node is queued whether it is visible or not
updateAlwaysQueued(h, rq, n) ==
    The({[h  |-> IF h1[n].childIndexDirty
                 THEN [h1 EXCEPT ![n].children =
                                     sort(@, [c \in Nodes |-> h1[c]._childIndex]),
                                 ![n].childIndexDirty = FALSE]
                 ELSE h1,
          rq |-> Append(rq, n)] :
            h1 \in {updateTransform(h, n)}})

\* GameObject.update up to its for-of loop: the heap and the render queue
update(h, rq, n) ==
    The({[h  |-> IF h1[n].childIndexDirty
                 THEN [h1 EXCEPT ![n].children =
                                     sort(@, [c \in Nodes |-> h1[c]._childIndex]),
                                 ![n].childIndexDirty = FALSE]
                 ELSE h1,
          rq |-> IF h1[n].visible THEN Append(rq, n) ELSE rq] :
            h1 \in {updateTransform(h, n)}})

\* GameObject.physics up to its for-of loop
physics(h, n) == updateTransform(h, n)

\* a plausible slip: the parent is not told that its order has changed
setChildIndexUnmarked(h, n, v) ==
    IF h[n]._childIndex # v THEN [h EXCEPT ![n]._childIndex = v] ELSE h

\* the childIndex setter
setChildIndex(h, n, v) ==
    IF h[n]._childIndex # v
    THEN LET h1 == [h EXCEPT ![n]._childIndex = v]
         IN  IF h[n].parent # Null THEN setChildIndexDirty(h1, h[n].parent) ELSE h1
    ELSE h

\* a plausible slip: the snapshot is not taken where the iteration starts
loopHeadNoSnapshot(g, inp) ==
    [ game  |-> [g EXCEPT !.scheduled = FALSE, !.renderQueue = <<>>,
                          !.pc = "update", !.stack = RootCall],
      input |-> inp,
      log   |-> <<>> ]

\* loop() down to its call of stage.update
loopHead(g, inp) ==
    [ game  |-> [g EXCEPT !.scheduled = FALSE, !.renderQueue = <<>>,
                          !.pc = "update", !.stack = RootCall],
      input |-> input_update(inp),
      log   |-> <<Step("input", Null)>> ]

\* a plausible slip: the next call is requested without looking at alive
loopTailAlways(g, lg) ==
    [ game |-> [g EXCEPT !.pc = "idle", !.frame = @ + 1, !.scheduled = TRUE],
      log  |-> Append(lg, Step("raf", Null)) ]

\* loop() after its render loop
loopTail(g, lg) ==
    [ game |-> [g EXCEPT !.pc = "idle", !.frame = @ + 1, !.scheduled = g.alive],
      log  |-> IF g.alive THEN Append(lg, Step("raf", Null)) ELSE lg ]

\* Game.destroy
game_destroy(h, g) ==
    [h |-> destroy(h, Stage), game |-> [g EXCEPT !.alive = FALSE]]

\* what an overridden onUpdate or onPhysics does besides polling the input
onHook(h, g, act) ==
    CASE act = "poll"    -> [h |-> h, game |-> g]
      [] act = "destroy" -> game_destroy(h, g)

\* the entry that a hook's act leaves in the log
Did(act, n) == IF act = "poll" THEN <<>> ELSE <<Step(act, n)>>

\* Game.start() took the drawing context and made the first call of loop
Started == [NewGame EXCEPT !.hasCtx = TRUE, !.scheduled = TRUE]

\* the stage with every other node as its child, built with addChild
RECURSIVE siblingsFrom(_, _)
siblingsFrom(h, k) ==
    IF k > NumNodes THEN h
    ELSE siblingsFrom(addChild(h, Stage, k).h, k + 1)

Siblings == siblingsFrom(Fresh, Stage + 1)

InitLoop ==
    /\ objs \in {Scene, Siblings}
    /\ last = NoCall
    /\ calls = 0
    /\ mats = NoMats
    /\ assets = NewAssets
    /\ cam = NoCam
    /\ game = Started
    /\ input = NewInput
    /\ hist = NoHist
    /\ log = <<>>

InitInput ==
    /\ objs = Scene
    /\ last = NoCall
    /\ calls = 0
    /\ mats = NoMats
    /\ assets = NewAssets
    /\ cam = NoCam
    /\ game \in {Started, [Started EXCEPT !.hasCtx = FALSE]}
    /\ input = NewInput
    /\ hist = NoHist
    /\ log = <<>>

\* the pending call of loop() starts: without a context it returns at once
LoopBegin ==
    /\ game.pc = "idle"
    /\ game.scheduled
    /\ game.frame < MaxFrames \/ ~game.alive
    /\ IF ~game.hasCtx
       THEN /\ game' = [game EXCEPT !.scheduled = FALSE]
            /\ UNCHANGED <<input, hist, log>>
       ELSE LET r == loopHead(game, input)
            IN  /\ game' = r.game
                /\ input' = r.input
                /\ log' = r.log
                /\ hist' = [iter     |-> game.frame,
                            held     |-> input.keysDown,
                            pressed  |-> input.keysDown \ hist.held,
                            released |-> hist.held \ input.keysDown]
    /\ last' = NoCall
    /\ UNCHANGED <<objs, mats, assets, cam>>

\* the update pass enters its next node, whose onUpdate does act
UpdateStep(act) ==
    /\ game.pc = "update"
    /\ LET st == unwind(objs, game.stack)
       IN  /\ st # <<>>
           /\ \E c \in {kids(objs, st[Len(st)].n)[st[Len(st)].i + 1]} :
              \E k \in {onHook(objs, [game EXCEPT !.stack = descend(st, c)], act)} :
              \E r \in {update(k.h, k.game.renderQueue, c)} :
                  /\ objs' = r.h
                  /\ game' = [k.game EXCEPT !.renderQueue = r.rq]
                  /\ log' = log \o <<Hook("update", c, input)>> \o Did(act, c)
    /\ last' = NoCall
    /\ UNCHANGED <<mats, assets, cam, input, hist>>

\* stage.update has returned: stage.physics is called
UpdateDone ==
    /\ game.pc = "update"
    /\ unwind(objs, game.stack) = <<>>
    /\ game' = [game EXCEPT !.pc = "physics", !.stack = RootCall]
    /\ last' = NoCall
    /\ UNCHANGED <<objs, mats, assets, cam, input, hist, log>>

\* the physics pass enters its next node, whose onPhysics does act
PhysicsStep(act) ==
    /\ game.pc = "physics"
    /\ LET st == unwind(objs, game.stack)
       IN  /\ st # <<>>
           /\ \E c \in {kids(objs, st[Len(st)].n)[st[Len(st)].i + 1]} :
              \E k \in {onHook(objs, [game EXCEPT !.stack = descend(st, c)], act)} :
                  /\ objs' = physics(k.h, c)
                  /\ game' = k.game
                  /\ log' = log \o <<Hook("physics", c, input)>> \o Did(act, c)
    /\ last' = NoCall
    /\ UNCHANGED <<mats, assets, cam, input, hist>>

\* stage.physics has returned: the surface is cleared and the queue sorted
PhysicsDone ==
    /\ game.pc = "physics"
    /\ unwind(objs, game.stack) = <<>>
    /\ game' = [game EXCEPT !.pc = "render", !.stack = <<>>, !.ri = 0,
                            !.renderQueue =
                                sort(@, [c \in Nodes |-> objs[c].zIndex])]
    /\ log' = Append(log, Step("clear", Null))
    /\ last' = NoCall
    /\ UNCHANGED <<objs, mats, assets, cam, input, hist>>

\* the render loop draws its next node
RenderStep ==
    /\ game.pc = "render"
    /\ game.ri < Len(game.renderQueue)
    /\ game' = [game EXCEPT !.ri = @ + 1]
    /\ log' = Append(log, Step("render", game.renderQueue[game.ri + 1]))
    /\ last' = NoCall
    /\ UNCHANGED <<objs, mats, assets, cam, input, hist>>

\* the render loop is over: the next call of loop() is requested if alive
LoopEnd ==
    /\ game.pc = "render"
    /\ game.ri >= Len(game.renderQueue)
    /\ game' = loopTail(game, log).game
    /\ log' = loopTail(game, log).log
    /\ last' = NoCall
    /\ UNCHANGED <<objs, mats, assets, cam, input, hist>>

\* the steps of an iteration after its start, with hooks that only poll
InFrame ==
    \/ UpdateStep("poll")
    \/ UpdateDone
    \/ PhysicsStep("poll")
    \/ PhysicsDone
    \/ RenderStep
    \/ LoopEnd

\* the browser delivers events only between two calls of loop()
KeyDown(code) ==
    /\ game.pc = "idle"
    /\ input' = handleKeyDown(input, code)
    /\ last' = NoCall
    /\ UNCHANGED <<objs, mats, assets, cam, game, hist, log>>

KeyUp(code) ==
    /\ game.pc = "idle"
    /\ input' = handleKeyUp(input, code)
    /\ last' = NoCall
    /\ UNCHANGED <<objs, mats, assets, cam, game, hist, log>>

SetZIndex(n, z) ==
    /\ objs' = [objs EXCEPT ![n].zIndex = z]
    /\ last' = NoCall
    /\ UNCHANGED <<mats, frameVars, assets, cam>>

SetChildIndex(n, v) ==
    /\ objs' = setChildIndex(objs, n, v)
    /\ last' = NoCall
    /\ UNCHANGED <<mats, frameVars, assets, cam>>

SetVisible(n, b) ==
    /\ objs' = [objs EXCEPT ![n].visible = b]
    /\ last' = NoCall
    /\ UNCHANGED <<mats, frameVars, assets, cam>>

\* the frames of a scene that the game code rearranges between them; the
\* budget of calls counts the calls of loop() too
NextLoop ==
    \/ Tick /\ LoopBegin
    \/ InFrame /\ UNCHANGED calls
    \/ \E n, c \in Nodes :
          game.pc = "idle" /\ Tick /\ c # n /\ AddChild(n, c)
    \/ \E n, c \in Nodes :
          game.pc = "idle" /\ Tick /\ objs[c].parent = n /\ RemoveChild(n, c)
    \/ \E n \in Nodes, z \in ZIndexes :
          game.pc = "idle" /\ Tick /\ objs[n].zIndex # z /\ SetZIndex(n, z)
    \/ \E n \in Nodes, v \in ChildIndexes :
          game.pc = "idle" /\ Tick /\ objs[n]._childIndex # v /\ SetChildIndex(n, v)
    \/ \E n \in Nodes, b \in BOOLEAN :
          game.pc = "idle" /\ Tick /\ objs[n].visible # b /\ SetVisible(n, b)

SpecLoop == InitLoop /\ [][NextLoop]_vars

\* the frames of a fixed scene with key events between them
NextInput ==
    \/ LoopBegin /\ UNCHANGED calls
    \/ InFrame /\ UNCHANGED calls
    \/ \E k \in Keys : KeyDown(k) /\ UNCHANGED calls
    \/ \E k \in Keys : KeyUp(k) /\ UNCHANGED calls

SpecInput == InitInput /\ [][NextInput]_vars

----------------------------------------------------------------------------
(* Properties of the loop *)

\* C8 as claimed: in an iteration that follows another one, every update
\* hook is answered wasKeyPressed = TRUE for exactly the keys that were not
\* down during the previous iteration and are down now, and wasKeyReleased
\* = TRUE for exactly the keys that were down then and are not down now.
C8_EdgeQueries ==
    hist.iter >= 1
    => \A i \in DOMAIN log :
          log[i].ev = "update"
          => /\ log[i].pressed = hist.pressed
             /\ log[i].released = hist.released

\* position of a kind of step in the order that loop() is written in
Rank(ev) ==
    CASE ev = "input"   -> 0
      [] ev = "update"  -> 1
      [] ev = "physics" -> 2
      [] ev = "clear"   -> 3
      [] ev = "render"  -> 4
      [] ev = "raf"     -> 5

EventsOf(ev) == {i \in DOMAIN log : log[i].ev = ev}

UpdateAt(n) == CHOOSE i \in EventsOf("update") : log[i].n = n

Visited == {log[i].n : i \in EventsOf("update")}

\* C10: the render hooks run in ascending zIndex, those of equal zIndex in
\* the order in which the update pass entered their nodes; the update pass
\* enters a parent before its children and siblings in the order of the
\* parent's children list.
C10_RenderOrder ==
    game.pc = "render"
    => /\ \A i, j \in EventsOf("render") :
             i < j
             => LET a == log[i].n
                    b == log[j].n
                IN  \/ objs[a].zIndex < objs[b].zIndex
                    \/ /\ objs[a].zIndex = objs[b].zIndex
                       /\ UpdateAt(a) < UpdateAt(b)
       /\ \A a, b \in Visited :
             /\ objs[b].parent = a => UpdateAt(a) < UpdateAt(b)
             /\ ( /\ objs[a].parent # Null
                  /\ objs[a].parent = objs[b].parent
                  /\ indexOf(objs[objs[a].parent].children, a)
                         < indexOf(objs[objs[a].parent].children, b) )
                => UpdateAt(a) < UpdateAt(b)

\* a finished render pass in which a node drawn later was entered earlier,
\* two nodes of equal zIndex were drawn, and two siblings were entered in an
\* order that their childIndex gave them against the order of attachment
C10_Witness ==
    /\ game.pc = "render"
    /\ game.ri = Len(game.renderQueue)
    /\ \E i, j \in EventsOf("render") :
          i < j /\ UpdateAt(log[j].n) < UpdateAt(log[i].n)
    /\ \E i, j \in EventsOf("render") :
          i < j /\ objs[log[i].n].zIndex = objs[log[j].n].zIndex
    /\ \E a, b \in Visited :
          /\ a > b
          /\ objs[a].parent = Stage /\ objs[b].parent = Stage
          /\ objs[a]._childIndex < objs[b]._childIndex
          /\ UpdateAt(a) < UpdateAt(b)

----------------------------------------------------------------------------
(* Stopping the loop *)

\* what the hooks of the stopping specification may do
StopActs == {"poll", "destroy"}

InitStop ==
    /\ objs \in {Scene, Siblings}
    /\ last = NoCall
    /\ calls = 0
    /\ mats = NoMats
    /\ assets = NewAssets
    /\ cam = NoCam
    /\ game = Started
    /\ input = NewInput
    /\ hist = NoHist
    /\ log = <<>>

\* Game.destroy() called from an event handler between two calls of loop()
GameDestroy ==
    /\ game.pc = "idle"
    /\ \E k \in {game_destroy(objs, game)} :
          /\ objs' = k.h
          /\ game' = k.game
    /\ last' = NoCall
    /\ UNCHANGED <<mats, assets, cam, input, hist, log>>

\* the browser runs the pending call of loop(), and loop() runs to its end
RunLoop ==
    /\ \/ LoopBegin
       \/ \E a \in StopActs : UpdateStep(a)
       \/ UpdateDone
       \/ \E a \in StopActs : PhysicsStep(a)
       \/ PhysicsDone
       \/ RenderStep
       \/ LoopEnd
    /\ UNCHANGED calls

NextStop ==
    \/ RunLoop
    \/ GameDestroy /\ UNCHANGED calls

SpecStop == InitStop /\ [][NextStop]_vars /\ WF_vars(RunLoop)

\* C11: once alive is false no call of loop() is requested any more; the
\* iteration under way still clears the surface and draws every queued node;
\* and the loop comes to rest with no call pending.
C11_StopsWhenDead ==
    /\ [][~game.alive => (game'.scheduled => game.scheduled)]_vars
    /\ [][(~game.alive /\ game.pc # "idle" /\ game'.pc = "idle")
             => /\ EventsOf("clear") # {}
                /\ Cardinality(EventsOf("render")) = Len(game.renderQueue)]_vars
    /\ (~game.alive) ~> [](game.pc = "idle" /\ ~game.scheduled)

\* the game was destroyed by a hook, hooks ran after that one in the same
\* iteration, and the loop is at rest
C11_Witness ==
    /\ ~game.alive
    /\ game.pc = "idle"
    /\ ~game.scheduled
    /\ \E i \in EventsOf("destroy") :
          /\ \E j \in EventsOf("update") \cup EventsOf("physics") : j > i
          /\ \E j \in EventsOf("render") : j > i

----------------------------------------------------------------------------
(* AssetsManager *)

\* Map.has on the cache
has(a, url) == a.cache[url] # Absent

\* AssetsManager.get: the key is looked up as a url, then as an alias
get(a, key) ==
    IF key \in Urls /\ a.cache[key] # Absent THEN a.cache[key]
    ELSE IF key \in Names /\ a.nameMap[key] # NoUrl THEN a.cache[a.nameMap[key]]
    ELSE Absent

\* a call of a load method: what it loads, for whom, where it stands and
\* what it resolved to
Task(url, name, inBatch, pc, result) ==
    [url |-> url, name |-> name, inBatch |-> inBatch, pc |-> pc, result |-> result]

\* an emitted event; t is the call that emitted it
Emit(type, t, url, name, asset, value) ==
    [type |-> type, t |-> t, url |-> url, name |-> name, asset |-> asset,
     value |-> value]

\* loadImage / loadAudio / loadJSON / loadXML / loadText up to the first
\* await: a cached url resolves at once, any other is requested
load(a, url, name, inBatch) ==
    IF has(a, url)
    THEN [a EXCEPT !.tasks = Append(@, Task(url, name, inBatch,
                                            IF inBatch THEN "loaded" ELSE "done",
                                            a.cache[url]))]
    ELSE [a EXCEPT !.tasks = Append(@, Task(url, name, inBatch, "fetch", Absent))]

\* the rest of a load method, when the resource has arrived: a new asset
\* object is cached, the alias registered, `load` emitted, the call resolved
arrive(a, t) ==
    LET k == a.tasks[t]
        asset == a.made + 1
    IN  [a EXCEPT !.made = asset,
                  !.cache[k.url] = asset,
                  !.nameMap = IF k.name # NoName
                              THEN [@ EXCEPT ![k.name] = k.url] ELSE @,
                  !.emitted = Append(@, Emit("load", t, k.url, k.name, asset, <<0, 1>>)),
                  !.tasks[t].pc = IF k.inBatch THEN "loaded" ELSE "done",
                  !.tasks[t].result = asset]

\* the calls of the load methods that loadAll makes for items, in order
RECURSIVE loadEach(_, _, _)
loadEach(a, items, i) ==
    IF i > Len(items) THEN a
    ELSE loadEach(load(a, items[i].url, items[i].name, TRUE), items, i + 1)

\* loadAll up to its await
loadAll(a, items) ==
    loadEach([a EXCEPT !.loaded = 0, !.total = Len(items), !.batch = "running"],
             items, 1)

\* a plausible slip: progress is emitted before the counter is advanced
settleBeforeCount(a, t) ==
    [a EXCEPT !.loaded = @ + 1,
              !.emitted = Append(@, Emit("progress", t, NoUrl, NoName, Absent,
                                         NDiv(Num(a.loaded), Num(a.total)))),
              !.tasks[t].pc = "done"]

\* the callback of loadAll's map after `await loader`
settle(a, t) ==
    [a EXCEPT !.loaded = @ + 1,
              !.emitted = Append(@, Emit("progress", t, NoUrl, NoName, Absent,
                                         NDiv(Num(a.loaded + 1), Num(a.total)))),
              !.tasks[t].pc = "done"]

\* loadAll after Promise.all
complete(a) ==
    [a EXCEPT !.emitted = Append(@, Emit("complete", 0, NoUrl, NoName, Absent, <<0, 1>>)),
              !.batch = "complete"]

Items == [url : Urls, name : Names \cup {NoName}]

\* the item lists of at most k items
RECURSIVE ItemLists(_)
ItemLists(k) ==
    IF k = 0 THEN {<<>>}
    ELSE ItemLists(k - 1)
             \cup {Append(l, x) : l \in {m \in ItemLists(k - 1) : Len(m) = k - 1},
                                  x \in Items}

OtherVars == <<objs, last, calls, mats, frameVars, cam>>

InitAssets ==
    /\ objs = Fresh
    /\ last = NoCall
    /\ calls = 0
    /\ mats = NoMats
    /\ InitFrame
    /\ assets = NewAssets
    /\ cam = NoCam

Load(url, name) ==
    /\ Len(assets.tasks) < MaxTasks
    /\ assets' = load(assets, url, name, FALSE)
    /\ UNCHANGED OtherVars

LoadAll(items) ==
    /\ assets.batch = "none"
    /\ Len(assets.tasks) + Len(items) <= MaxTasks
    /\ assets' = loadAll(assets, items)
    /\ UNCHANGED OtherVars

\* the resource of call t arrives
Arrive(t) ==
    /\ assets.tasks[t].pc = "fetch"
    /\ assets' = arrive(assets, t)
    /\ UNCHANGED OtherVars

\* the loader of item t of loadAll has resolved
Settle(t) ==
    /\ assets.tasks[t].pc = "loaded"
    /\ assets' = settle(assets, t)
    /\ UNCHANGED OtherVars

\* every callback of loadAll's map has returned
Complete ==
    /\ assets.batch = "running"
    /\ \A t \in DOMAIN assets.tasks :
          assets.tasks[t].inBatch => assets.tasks[t].pc = "done"
    /\ assets' = complete(assets)
    /\ UNCHANGED OtherVars

NextAssets ==
    \/ \E u \in Urls, k \in Names \cup {NoName} : Load(u, k)
    \/ \E items \in ItemLists(MaxTasks) : LoadAll(items)
    \/ \E t \in DOMAIN assets.tasks : Arrive(t)
    \/ \E t \in DOMAIN assets.tasks : Settle(t)
    \/ Complete

SpecAssets == InitAssets /\ [][NextAssets]_vars

----------------------------------------------------------------------------
(* Properties of the AssetsManager *)

EmittedOf(type) == {i \in DOMAIN assets.emitted : assets.emitted[i].type = type}

\* the calls that have resolved
Resolved(a) == {t \in DOMAIN a.tasks : a.tasks[t].pc \in {"loaded", "done"}}

\* the calls that requested their resource instead of finding it cached
Requested ==
    {t \in DOMAIN assets.tasks :
        \/ assets.tasks[t].pc = "fetch"
        \/ \E i \in EmittedOf("load") : assets.emitted[i].t = t}

\* C12 as claimed: whatever the number of load calls for a url, and whether
\* or not an earlier one is still under way, the url is requested once, one
\* `load` event is emitted for it, and every call resolves to the asset
\* that get(url) returns.
C12_LoadedOncePerUrl ==
    \A u \in Urls :
        /\ Cardinality({t \in Requested : assets.tasks[t].url = u}) <= 1
        /\ Cardinality({i \in EmittedOf("load") : assets.emitted[i].url = u}) <= 1
        /\ \A t \in Resolved(assets) :
              assets.tasks[t].url = u => assets.tasks[t].result = get(assets, u)

\* C13 as claimed: when a load call made with an alias resolves, get(name)
\* is the asset that get(url) is, whether the url was cached or not when the
\* call was made.
C13_AliasAfterLoad ==
    [][\A t \in Resolved(assets') \ Resolved(assets) :
          assets'.tasks[t].name # NoName
          => /\ get(assets', assets'.tasks[t].name) # Absent
             /\ get(assets', assets'.tasks[t].name)
                    = get(assets', assets'.tasks[t].url)]_vars

\* the i-th smallest element of a set of positions
Nth(S, i) == CHOOSE x \in S : Cardinality({y \in S : y < x}) = i - 1

\* C14: the progress events of the loadAll call carry 1/n, 2/n, ... in this
\* order; there is at most one complete event, and when it is there all n
\* progress events and every load event of the items of the call precede it.
C14_ProgressThenComplete ==
    /\ Cardinality(EmittedOf("progress")) <= assets.total
    /\ \A i \in 1..Cardinality(EmittedOf("progress")) :
          assets.emitted[Nth(EmittedOf("progress"), i)].value
              = NDiv(Num(i), Num(assets.total))
    /\ Cardinality(EmittedOf("complete")) <= 1
    /\ assets.batch = "complete" <=> EmittedOf("complete") # {}
    /\ \A c \in EmittedOf("complete") :
          /\ Cardinality(EmittedOf("progress")) = assets.total
          /\ \A i \in EmittedOf("progress") : i < c
          /\ \A t \in DOMAIN assets.tasks :
                assets.tasks[t].inBatch
                => /\ assets.tasks[t].pc = "done"
                   /\ \A i \in EmittedOf("load") : assets.emitted[i].t = t => i < c

\* a loadAll call over two items or more, one of them requested, is complete
C14_Witness ==
    /\ assets.batch = "complete"
    /\ assets.total >= 2
    /\ \E i \in EmittedOf("load") : assets.tasks[assets.emitted[i].t].inBatch

----------------------------------------------------------------------------
(* Camera *)

\* the GameObject that is the camera, and the one that it may be attached to
Cam == 1
CamParent == 2

Half == NDiv(One, Num(2))

\* the Camera fields as the constructor and enableLimit / setLimit /
\* enableSmooth leave them, with the logical size of the scaler's viewport
\* and, of the last onUpdate, its time step, the smoothed position before it
\* and the global position that it read
Camera(zoom, center, limitEnabled, limit, useSmooth, viewport) ==
    [ zoom           |-> zoom,
      center         |-> center,
      limitEnabled   |-> limitEnabled,
      limit          |-> limit,
      useSmooth      |-> useSmooth,
      smoothSpeed    |-> Num(5),
      cameraPosition |-> VecI(0, 0),
      limitDiff      |-> VecI(0, 0),
      viewport       |-> viewport,
      op             |-> "new",
      ticks          |-> 0,
      dt             |-> Zero,
      before         |-> VecI(0, 0),
      target         |-> VecI(0, 0) ]

\* Vec2.add, Vec2.subtract, Vec2.multiplyScalar
add(v, w) == Vec(NAdd(v.x, w.x), NAdd(v.y, w.y))
subtract(v, w) == Vec(NSub(v.x, w.x), NSub(v.y, w.y))
multiplyScalar(v, k) == Vec(NMul(v.x, k), NMul(v.y, k))

\* a plausible slip: the view is pushed by the overlap, away from the bound
limitAlongOutward(gp, len, lo, hi) ==
    LET leftTop == NSub(gp, NMul(len, Half))
        rightDown == NAdd(gp, NMul(len, Half))
    IN  IF NLt(NSub(hi, lo), len)
        THEN NSub(NMul(NAdd(lo, hi), Half), NMul(NAdd(leftTop, rightDown), Half))
        ELSE NAdd(IF NLt(leftTop, lo) THEN NSub(leftTop, lo) ELSE Zero,
                  IF NLt(hi, rightDown) THEN NSub(rightDown, hi) ELSE Zero)

\* what onUpdate adds to limitDiff along one axis: gp the view center, len
\* the viewport's length and lo..hi the bound along the axis
limitAlong(gp, len, lo, hi) ==
    LET leftTop == NSub(gp, NMul(len, Half))
        rightDown == NAdd(gp, NMul(len, Half))
    IN  IF NLt(NSub(hi, lo), len)
        THEN NSub(NMul(NAdd(lo, hi), Half), NMul(NAdd(leftTop, rightDown), Half))
        ELSE NAdd(IF NLt(leftTop, lo) THEN NSub(lo, leftTop) ELSE Zero,
                  IF NLt(hi, rightDown) THEN NSub(hi, rightDown) ELSE Zero)

\* Camera.onUpdate: the heap and the camera afterwards
onUpdate(h, cm, dt) ==
    LET g == getGlobalPosition(h, Cam)
        smoothed == IF cm.useSmooth
                    THEN add(cm.cameraPosition,
                             multiplyScalar(subtract(g.v, cm.cameraPosition),
                                            NMul(cm.smoothSpeed, dt)))
                    ELSE cm.cameraPosition
        globalPos == IF cm.useSmooth THEN smoothed ELSE g.v
    IN  [ h   |-> g.h,
          cam |-> [cm EXCEPT
                     !.cameraPosition = smoothed,
                     !.limitDiff =
                         IF cm.limitEnabled
                         THEN Vec(limitAlong(globalPos.x, cm.viewport.x,
                                             cm.limit.left, cm.limit.right),
                                  limitAlong(globalPos.y, cm.viewport.y,
                                             cm.limit.up, cm.limit.down))
                         ELSE VecI(0, 0),
                     !.op = "update",
                     !.ticks = @ + 1,
                     !.dt = dt,
                     !.before = cm.cameraPosition,
                     !.target = g.v] ]

\* a plausible slip: the centering translation is applied before the zoom
getViewMatrixCenterFirst(h, cm) ==
    LET h1 == updateTransform(h, Cam)
        v0 == translate(h1[Cam].worldTransform, cm.limitDiff.x, cm.limitDiff.y)
        local == globalToLocalPosition(h1, Cam, cm.cameraPosition).v
        v1 == IF cm.useSmooth THEN translate(v0, local.x, local.y) ELSE v0
        v2 == IF cm.center
              THEN prepend(invert(v1), Mat(One, Zero, Zero, One,
                                           NMul(cm.viewport.x, Half),
                                           NMul(cm.viewport.y, Half)))
              ELSE invert(v1)
    IN  prepend(v2, Mat(cm.zoom, Zero, Zero, cm.zoom, Zero, Zero))

\* Camera.getViewMatrix
getViewMatrix(h, cm) ==
    LET h1 == updateTransform(h, Cam)
        v0 == translate(h1[Cam].worldTransform, cm.limitDiff.x, cm.limitDiff.y)
        local == globalToLocalPosition(h1, Cam, cm.cameraPosition).v
        v1 == IF cm.useSmooth THEN translate(v0, local.x, local.y) ELSE v0
        v2 == prepend(invert(v1), Mat(cm.zoom, Zero, Zero, cm.zoom, Zero, Zero))
    IN  IF cm.center
        THEN prepend(v2, Mat(One, Zero, Zero, One,
                             NMul(cm.viewport.x, Half), NMul(cm.viewport.y, Half)))
        ELSE v2

worldToScreen(h, cm, worldPos) == transformVec2(getViewMatrix(h, cm), worldPos)

\* a plausible slip: the view matrix is applied without being inverted
screenToWorldForward(h, cm, screenPos) ==
    transformVec2(getViewMatrix(h, cm), screenPos)

screenToWorld(h, cm, screenPos) ==
    transformVec2(invert(getViewMatrix(h, cm)), screenPos)

\* values that the callers assign
CamPositions == {VecI(x, y) : x \in {-1, 1, 3}, y \in {0, 3}}
CamScales == {VecI(1, 1), VecI(2, 1), VecI(0, 1)}
Zooms == {Zero, One, Num(2)}
Limits == {[left |-> Zero, up |-> Zero, right |-> Num(r), down |-> Num(d)] :
              r \in {1, 4}, d \in {4}}
              \cup {[left |-> Zero, up |-> Zero, right |-> One, down |-> One]}
Viewport == VecI(2, 2)
TimeSteps == {Zero, NDiv(One, Num(10)), Half}
ParentPositions == {VecI(3, 0)}

\* the camera placed, turned and scaled, alone or under a parent
CameraScenes ==
    {setScale(setRotation(setPosition(h, Cam, p), Cam, q), Cam, s) :
        h \in {Fresh} \cup {setPosition(addChild(Fresh, CamParent, Cam).h, CamParent, pp) :
                               pp \in ParentPositions},
        p \in CamPositions, q \in Rotations, s \in CamScales}

InitCamera ==
    /\ objs \in CameraScenes
    /\ last = NoCall
    /\ calls = 0
    /\ mats = NoMats
    /\ InitFrame
    /\ assets = NewAssets
    /\ cam \in {Camera(z, c, le, lim, us, Viewport) :
                   z \in Zooms, c \in BOOLEAN, le \in BOOLEAN, lim \in Limits,
                   us \in BOOLEAN}

\* the update pass calls the camera's onUpdate
CameraUpdate(dt) ==
    /\ cam.ticks < MaxTicks
    /\ \E r \in {onUpdate(objs, cam, dt)} :
          /\ objs' = r.h
          /\ cam' = r.cam
    /\ UNCHANGED <<last, calls, mats, frameVars, assets>>

NextCamera ==
    \/ \E dt \in TimeSteps : CameraUpdate(dt)

SpecCamera == InitCamera /\ [][NextCamera]_vars

\* the camera's world transform is a translation
PureTranslation ==
    /\ objs[Cam]._rotation = 0
    /\ objs[Cam]._scale = VecI(1, 1)

\* the world point that the screen shows at the middle of the viewport
ShownAtCenter == screenToWorld(objs, cam, multiplyScalar(cam.viewport, Half))

\* the center of the view before the limit is applied
Uncorrected == IF cam.useSmooth THEN cam.cameraPosition ELSE cam.target

Inside(c, len, lo, hi) ==
    /\ ~NLt(NSub(c, NMul(len, Half)), lo)
    /\ ~NLt(hi, NAdd(c, NMul(len, Half)))

\* C15: with the limit enabled on a camera whose world transform is a
\* translation, along each axis where the viewport is longer than the bound
\* the world point shown at the middle of the viewport after onUpdate is the
\* middle of the bound, with and without smoothing.
C15_CentersOnBound ==
    (cam.op = "update" /\ cam.limitEnabled /\ PureTranslation /\ cam.zoom # Zero)
        => /\ NLt(NSub(cam.limit.right, cam.limit.left), cam.viewport.x)
                => ShownAtCenter.x = NMul(NAdd(cam.limit.left, cam.limit.right), Half)
           /\ NLt(NSub(cam.limit.down, cam.limit.up), cam.viewport.y)
                => ShownAtCenter.y = NMul(NAdd(cam.limit.up, cam.limit.down), Half)

\* C16: with the limit enabled on a camera whose world transform is a
\* translation, zoom 1 and centering on, along each axis where the viewport
\* is not longer than the bound the view rectangle around the corrected
\* center lies inside the bound after onUpdate, and the correction is zero
\* when the rectangle around the uncorrected center was inside already.
C16_ClampsIntoBound ==
    (cam.op = "update" /\ cam.limitEnabled /\ PureTranslation
        /\ cam.zoom = One /\ cam.center)
        => /\ ~NLt(NSub(cam.limit.right, cam.limit.left), cam.viewport.x)
                => /\ Inside(ShownAtCenter.x, cam.viewport.x,
                             cam.limit.left, cam.limit.right)
                   /\ Inside(Uncorrected.x, cam.viewport.x,
                             cam.limit.left, cam.limit.right)
                         => cam.limitDiff.x = Zero
           /\ ~NLt(NSub(cam.limit.down, cam.limit.up), cam.viewport.y)
                => /\ Inside(ShownAtCenter.y, cam.viewport.y,
                             cam.limit.up, cam.limit.down)
                   /\ Inside(Uncorrected.y, cam.viewport.y,
                             cam.limit.up, cam.limit.down)
                         => cam.limitDiff.y = Zero

\* a view that was outside a bound longer than the viewport, pushed back
C16_Witness ==
    /\ cam.op = "update" /\ cam.limitEnabled /\ PureTranslation
    /\ cam.zoom = One /\ cam.center /\ cam.useSmooth
    /\ ~NLt(NSub(cam.limit.right, cam.limit.left), cam.viewport.x)
    /\ cam.limitDiff.x # Zero
    /\ cam.limitDiff.y = Zero
    /\ ~Inside(Uncorrected.x, cam.viewport.x, cam.limit.left, cam.limit.right)
    /\ Inside(ShownAtCenter.x, cam.viewport.x, cam.limit.left, cam.limit.right)

clamp(x, lo, hi) == IF NLt(x, lo) THEN lo ELSE IF NLt(hi, x) THEN hi ELSE x

\* C17: with smoothing enabled, one onUpdate with time step dt moves the
\* smoothed position toward the camera's global position by the fraction
\* clamp(smoothSpeed * dt, 0, 1) of the remaining distance.
C17_SmoothingFraction ==
    (cam.op = "update" /\ cam.useSmooth)
        => cam.cameraPosition =
               add(cam.before,
                   multiplyScalar(subtract(cam.target, cam.before),
                                  clamp(NMul(cam.smoothSpeed, cam.dt), Zero, One)))

\* the view matrix has an inverse: the inverse of the camera's transform, the
\* identity when there is none, scaled by the zoom
Invertible == cam.zoom # Zero

RoundTrip ==
    \A p \in TestPoints : screenToWorld(objs, cam, worldToScreen(objs, cam, p)) = p

\* C18: for a camera with a zoom other than 0, whatever its rotation, scale,
\* position and centering flag, screenToWorld(worldToScreen(p)) = p for
\* every point p.
C18_RoundTripInvertible == Invertible => RoundTrip

\* C18 as stated: the same for every zoom >= 0 and every scale
C18_RoundTripAnyZoom == RoundTrip

\* a turned, scaled, zoomed camera off the origin, smoothed and limited,
\* after an update
C18_Witness ==
    /\ cam.op = "update"
    /\ Invertible
    /\ cam.zoom = Num(2)
    /\ objs[Cam]._rotation = 1
    /\ objs[Cam]._scale = VecI(2, 1)
    /\ objs[Cam]._position = VecI(3, 3)
    /\ cam.useSmooth /\ cam.limitEnabled
    /\ \E p \in TestPoints : worldToScreen(objs, cam, p) # p
    /\ RoundTrip

----------------------------------------------------------------------------
(* Coordinate conversions *)

\* position, rotation and scale that the callers give a node: untouched;
\* moved, turned and stretched; moved and turned; flattened
Placements ==
    { [p |-> VecI(0, 0), q |-> 0, s |-> VecI(1, 1)],
      [p |-> VecI(1, 1), q |-> 1, s |-> VecI(2, 1)],
      [p |-> VecI(1, 0), q |-> 1, s |-> VecI(1, 1)],
      [p |-> VecI(0, 1), q |-> 0, s |-> VecI(0, 1)] }

place(h, n, pl) == setScale(setRotation(setPosition(h, n, pl.p), n, pl.q), n, pl.s)

RECURSIVE placeEach(_, _, _)
placeEach(h, n, f) ==
    IF n > NumNodes THEN h ELSE placeEach(place(h, n, f[n]), n + 1, f)

\* the chain 1 > 2 > ..., every node placed
PlacedScenes == {placeEach(chainFrom(Fresh, 1), 1, f) : f \in [Nodes -> Placements]}

\* a conversion called on node n with v, its result out, and for the way
\* back the point the way out started from
Conversion(op, n, v, out, from) ==
    [op |-> op, n |-> n, v |-> v, out |-> out, from |-> from]

InitConvert ==
    /\ objs \in PlacedScenes
    /\ last = NoCall
    /\ calls = 0
    /\ mats = NoMats
    /\ assets = NewAssets
    /\ cam = NoCam
    /\ InitFrame

LocalToGlobalPosition(n, v) ==
    /\ last.op = "none"
    /\ \E r \in {localToGlobalPosition(objs, n, v)} :
          /\ objs' = r.h
          /\ last' = Conversion("localToGlobalPosition", n, v, r.v, v)
    /\ UNCHANGED <<calls, mats, frameVars, assets, cam>>

\* the result of localToGlobalPosition handed back to the same node
GlobalToLocalPosition ==
    /\ last.op = "localToGlobalPosition"
    /\ \E r \in {globalToLocalPosition(objs, last.n, last.out)} :
          /\ objs' = r.h
          /\ last' = Conversion("globalToLocalPosition", last.n, last.out, r.v, last.from)
    /\ UNCHANGED <<calls, mats, frameVars, assets, cam>>

\* the globalScale getter; every entry of the world transforms of the placed
\* scenes is a whole number and one entry of each row is 0
getGlobalScale(h, n) ==
    LET h1 == updateTransform(h, n)
        m == h1[n].worldTransform
    IN  [h |-> h1, v |-> Vec(Sqrt(NAdd(NMul(m.a, m.a), NMul(m.c, m.c))),
                             Sqrt(NAdd(NMul(m.b, m.b), NMul(m.d, m.d))))]

GetGlobalScale(n) ==
    /\ last.op = "none"
    /\ \E r \in {getGlobalScale(objs, n)} :
          /\ objs' = r.h
          /\ last' = Conversion("globalScale", n, VecI(0, 0), r.v, VecI(0, 0))
    /\ UNCHANGED <<calls, mats, frameVars, assets, cam>>

NextConvert ==
    \/ \E n \in Nodes, v \in TestPoints : LocalToGlobalPosition(n, v)
    \/ GlobalToLocalPosition
    \/ \E n \in Nodes : GetGlobalScale(n)

SpecConvert == InitConvert /\ [][NextConvert]_vars

\* no node from n up to the root has a zero scale component
RECURSIVE NoZeroScale(_, _)
NoZeroScale(h, n) ==
    \/ n = Null
    \/ /\ h[n]._scale.x # Zero
       /\ h[n]._scale.y # Zero
       /\ NoZeroScale(h, h[n].parent)

\* C19: for a node N whose scale and whose ancestors' scales have no zero
\* component, whatever their positions and rotations,
\* N.globalToLocalPosition(N.localToGlobalPosition(v)) = v for every v.
C19_RoundTripNoZeroScale ==
    (last.op = "globalToLocalPosition" /\ NoZeroScale(objs, last.n))
        => last.out = last.from

\* C19 as stated: the same for every scale of N and of its ancestors
C19_RoundTripAnyScale ==
    last.op = "globalToLocalPosition" => last.out = last.from

\* the round trip on the last node of the chain, every node of it moved,
\* turned and stretched
C19_Witness ==
    /\ last.op = "globalToLocalPosition"
    /\ last.n = NumNodes
    /\ \A n \in Nodes : objs[n]._rotation = 1 /\ objs[n]._scale = VecI(2, 1)
    /\ last.v # last.from
    /\ last.out = last.from

----------------------------------------------------------------------------
(* Assignments of local state *)

\* Vec2.set, the x setter and the y setter on a vector with a change
\* callback: the vector afterwards and the number of times the callback ran
\* a plausible slip: the callback runs whether or not a component changed
Vec2_setAlways(vec, v) == [v |-> v, fired |-> 1]

Vec2_set(vec, v) ==
    [v |-> IF vec.x # v.x \/ vec.y # v.y THEN v ELSE vec,
     fired |-> IF vec.x # v.x \/ vec.y # v.y THEN 1 ELSE 0]

Vec2_x(vec, x) ==
    [v |-> IF vec.x # x THEN Vec(x, vec.y) ELSE vec,
     fired |-> IF vec.x # x THEN 1 ELSE 0]

Vec2_y(vec, y) ==
    [v |-> IF vec.y # y THEN Vec(vec.x, y) ELSE vec,
     fired |-> IF vec.y # y THEN 1 ELSE 0]

\* the ways to assign a vector: the property setter and Vec2.set (the setter
\* calls Vec2.set), the x setter, the y setter
Ways == {"set", "x", "y"}

Vec2_assign(vec, how, v) ==
    IF how = "x" THEN Vec2_x(vec, v.x)
    ELSE IF how = "y" THEN Vec2_y(vec, v.y)
    ELSE Vec2_set(vec, v)

\* the change callback of _position and of _scale is setDirty bound to n
RECURSIVE fire(_, _, _)
fire(h, n, times) == IF times = 0 THEN h ELSE fire(setDirty(h, n), n, times - 1)

assignPosition(h, n, how, v) ==
    LET r == Vec2_assign(h[n]._position, how, v)
    IN  [h |-> fire([h EXCEPT ![n]._position = r.v], n, r.fired), fired |-> r.fired]

assignScale(h, n, how, v) ==
    LET r == Vec2_assign(h[n]._scale, how, v)
    IN  [h |-> fire([h EXCEPT ![n]._scale = r.v], n, r.fired), fired |-> r.fired]

\* an assignment to a field of node n: the way, the value, the number of runs
\* of the change callback and the nodes that were dirty before
Assignment(field, n, how, v, q, fired, dirtyBefore) ==
    [op |-> "assign", field |-> field, n |-> n, how |-> how, v |-> v, q |-> q,
     fired |-> fired, dirtyBefore |-> dirtyBefore]

Dirty(h) == {d \in Nodes : h[d].isDirty}

AssignPosition(n, how, v) ==
    /\ \E r \in {assignPosition(objs, n, how, v)} :
          /\ objs' = r.h
          /\ last' = Assignment("position", n, how, v, 0, r.fired, Dirty(objs))
    /\ UNCHANGED <<mats, frameVars, assets, cam>>

AssignScale(n, how, v) ==
    /\ \E r \in {assignScale(objs, n, how, v)} :
          /\ objs' = r.h
          /\ last' = Assignment("scale", n, how, v, 0, r.fired, Dirty(objs))
    /\ UNCHANGED <<mats, frameVars, assets, cam>>

AssignRotation(n, q) ==
    /\ objs' = setRotation(objs, n, q)
    /\ last' = Assignment("rotation", n, "set", VecI(0, 0), q, 0, Dirty(objs))
    /\ UNCHANGED <<mats, frameVars, assets, cam>>

\* assignments and transform reads on the nodes of a scene
NextAssign ==
    \/ \E n \in Nodes : Tick /\ GetGlobalPosition(n)
    \/ \E n \in Nodes, how \in Ways, v \in Points : Tick /\ AssignPosition(n, how, v)
    \/ \E n \in Nodes, how \in Ways, v \in Scales : Tick /\ AssignScale(n, how, v)
    \/ \E n \in Nodes, q \in Rotations : Tick /\ AssignRotation(n, q)

SpecAssign == InitTransform /\ [][NextAssign]_vars

\* node n and the nodes below it
Subtree(h, n) == {d \in Nodes : d = n \/ isDescendantOf(h, d, n)}

\* the value that assignment l asks node n's field to have, in heap h
Asked(h, l) ==
    LET cur == IF l.field = "position" THEN h[l.n]._position ELSE h[l.n]._scale
    IN  IF l.how = "x" THEN Vec(l.v.x, cur.y)
        ELSE IF l.how = "y" THEN Vec(cur.x, l.v.y)
        ELSE l.v

\* assignment l asks for the value that the field has in heap h
SameValue(h, l) ==
    IF l.field = "rotation" THEN l.q = h[l.n]._rotation
    ELSE IF l.field = "position" THEN Asked(h, l) = h[l.n]._position
    ELSE Asked(h, l) = h[l.n]._scale

\* C20: an assignment of position, rotation or scale (property setter and
\* Vec2.set, x setter, y setter) of the value that the field has leaves the
\* dirty flags of the node and of its descendants as they were and does not
\* run the change callback; an assignment that changes a component runs the
\* callback once and leaves the node and all its descendants dirty.
C20_AssignmentEffect ==
    [][last'.op = "assign" =>
          IF SameValue(objs, last')
          THEN /\ \A d \in Subtree(objs, last'.n) : objs'[d].isDirty = objs[d].isDirty
               /\ last'.fired = 0
          ELSE /\ last'.field # "rotation" => last'.fired = 1
               /\ \A d \in Subtree(objs, last'.n) : objs'[d].isDirty]_vars

\* an assignment of one component on a clean node above clean nodes
C20_Witness ==
    /\ last.op = "assign"
    /\ last.how = "x"
    /\ last.fired = 1
    /\ Cardinality(Subtree(objs, last.n)) > 1
    /\ Subtree(objs, last.n) \cap last.dirtyBefore = {}
    /\ \A d \in Subtree(objs, last.n) : objs[d].isDirty

----------------------------------------------------------------------------
(* Hooks that hide or detach other nodes *)

\* what an overridden onUpdate or onPhysics does to node n of the scene:
\* nothing, node.visible = false, node.parent.removeChild(node),
\* node.childIndex = the other one of the two values, node.position.set,
\* node.rotation = and node.scale.set with another value than the present one
HookAct(do, n) == [do |-> do, n |-> n]

Idle == HookAct("poll", Null)

HookActs ==
    {HookAct(do, n) : do \in {"hide", "detach", "reindex"}, n \in Nodes \ {Stage}}

onHookAct(h, a) ==
    CASE a.do = "poll"    -> h
      [] a.do = "hide"    -> [h EXCEPT ![a.n].visible = FALSE]
      [] a.do = "detach"  -> IF h[a.n].parent # Null
                             THEN removeChild(h, h[a.n].parent, a.n)
                             ELSE h
      [] a.do = "reindex" -> setChildIndex(h, a.n, 1 - h[a.n]._childIndex)
      [] a.do = "move"    -> setPosition(h, a.n,
                                 IF h[a.n]._position = VecI(0, 0)
                                 THEN VecI(1, 0) ELSE VecI(0, 0))
      [] a.do = "turn"    -> setRotation(h, a.n, 1 - h[a.n]._rotation)
      [] a.do = "stretch" -> setScale(h, a.n,
                                 IF h[a.n]._scale = VecI(1, 1)
                                 THEN VecI(2, 1) ELSE VecI(1, 1))

\* the entry that the act leaves in the log: what was done and to which node
DidAct(a) == IF a.do = "poll" THEN <<>> ELSE <<Step(a.do, a.n)>>

\* the update pass enters its next node, whose onUpdate does a
UpdateHook(a) ==
    /\ game.pc = "update"
    /\ \E st \in {unwind(objs, game.stack)} :
          /\ st # <<>>
          /\ \E c \in {kids(objs, st[Len(st)].n)[st[Len(st)].i + 1]} :
             \E h \in {onHookAct(objs, a)} :
             \E r \in {update(h, game.renderQueue, c)} :
                 /\ objs' = r.h
                 /\ game' = [game EXCEPT !.stack = descend(st, c), !.renderQueue = r.rq]
                 /\ log' = log \o <<Hook("update", c, input)>> \o DidAct(a)
    /\ last' = NoCall
    /\ UNCHANGED <<mats, assets, cam, input, hist>>

\* the physics pass enters its next node, whose onPhysics does a
PhysicsHook(a) ==
    /\ game.pc = "physics"
    /\ \E st \in {unwind(objs, game.stack)} :
          /\ st # <<>>
          /\ \E c \in {kids(objs, st[Len(st)].n)[st[Len(st)].i + 1]} :
             \E h \in {onHookAct(objs, a)} :
                 /\ objs' = physics(h, c)
                 /\ game' = [game EXCEPT !.stack = descend(st, c)]
                 /\ log' = log \o <<Hook("physics", c, input)>> \o DidAct(a)
    /\ last' = NoCall
    /\ UNCHANGED <<mats, assets, cam, input, hist>>

\* frames whose hooks hide and detach nodes, and calls that show and attach
\* them again between the frames
NextHooks ==
    \/ Tick /\ LoopBegin
    \/ UpdateHook(Idle) /\ UNCHANGED calls
    \/ \E a \in HookActs : Tick /\ UpdateHook(a)
    \/ UpdateDone /\ UNCHANGED calls
    \/ PhysicsHook(Idle) /\ UNCHANGED calls
    \/ \E a \in HookActs : Tick /\ PhysicsHook(a)
    \/ PhysicsDone /\ UNCHANGED calls
    \/ RenderStep /\ UNCHANGED calls
    \/ LoopEnd /\ UNCHANGED calls
    \/ \E n \in Nodes \ {Stage} :
          game.pc = "idle" /\ Tick /\ objs[n].parent = Null /\ AddChild(Stage, n)
    \/ \E n \in Nodes :
          game.pc = "idle" /\ Tick /\ ~objs[n].visible /\ SetVisible(n, TRUE)

SpecHooks == InitLoop /\ [][NextHooks]_vars

\* node n is the stage or below it
Attached(h, n) == n = Stage \/ isDescendantOf(h, n, Stage)

\* C21: the render loop calls the render hook of a node only if the node is
\* below the stage root and visible when the render pass starts (nothing
\* changes the scene during the render pass): a node that a hook of the
\* update or physics pass of the frame hid or detached is not drawn.
C21_DrawnOnlyIfShown ==
    [][(game.pc = "render" /\ game'.pc = "render" /\ game'.ri = game.ri + 1)
          => /\ Attached(objs, game.renderQueue[game.ri + 1])
             /\ objs[game.renderQueue[game.ri + 1]].visible]_vars

----------------------------------------------------------------------------
(* CanvasScaler *)

\* Math.round: the nearest integer, halves upward
Round(x) == Num((2 * x[1] + x[2]) \div (2 * x[2]))

Min(x, y) == IF NLt(y, x) THEN y ELSE x

\* the scale modes
IGNORE == "IGNORE"
EXPAND == "EXPAND"

\* the fields that resize() reads and writes; canvasWidth and canvasHeight
\* are also the CSS size of the canvas element (canvas.style.width), and
\* physicsWidth and physicsHeight the size of its pixel buffer (canvas.width)
NewScaler(baseWidth, baseHeight, mode) ==
    [ width         |-> baseWidth,
      height        |-> baseHeight,
      mode          |-> mode,
      logicalWidth  |-> baseWidth,
      logicalHeight |-> baseHeight,
      physicsWidth  |-> baseWidth,
      physicsHeight |-> baseHeight,
      canvasWidth   |-> baseWidth,
      canvasHeight  |-> baseHeight,
      dpr           |-> One,
      scale         |-> One,
      offsetX       |-> Zero,
      offsetY       |-> Zero ]

\* CanvasScaler.resize with a parent of parentWidth x parentHeight CSS pixels
\* on a display of device pixel ratio dpr
resize(sc, parentWidth, parentHeight, dpr) ==
    LET baseRatioExp == NDiv(sc.width, sc.height)
        parentRatioExp == NDiv(parentWidth, parentHeight)
        physicsWidth == Round(NMul(parentWidth, dpr))
        physicsHeight == Round(NMul(parentHeight, dpr))
        logicalWidth ==
            IF sc.mode = EXPAND
            THEN IF NLt(baseRatioExp, parentRatioExp)
                 THEN NMul(sc.height, parentRatioExp) ELSE sc.width
            ELSE physicsWidth
        logicalHeight ==
            IF sc.mode = EXPAND
            THEN IF NLt(baseRatioExp, parentRatioExp)
                 THEN sc.height ELSE NDiv(sc.width, parentRatioExp)
            ELSE physicsHeight
        s == Min(NDiv(physicsWidth, logicalWidth), NDiv(physicsHeight, logicalHeight))
    IN  [sc EXCEPT !.dpr = dpr,
                   !.canvasWidth = parentWidth,
                   !.canvasHeight = parentHeight,
                   !.physicsWidth = physicsWidth,
                   !.physicsHeight = physicsHeight,
                   !.logicalWidth = logicalWidth,
                   !.logicalHeight = logicalHeight,
                   !.scale = s,
                   !.offsetX = NMul(NSub(physicsWidth, NMul(sc.width, s)), Half),
                   !.offsetY = NMul(NSub(physicsHeight, NMul(sc.height, s)), Half)]

\* CanvasScaler.cssToScreen; rect is the canvas's bounding rectangle's corner
cssToScreen(sc, rect, cssPos) ==
    Vec(NDiv(NMul(NSub(cssPos.x, rect.x), sc.dpr), sc.scale),
        NDiv(NMul(NSub(cssPos.y, rect.y), sc.dpr), sc.scale))

\* the pixel of the buffer on which the render loop's setTransform
\* (m * scale for every entry of m) puts the logical screen point m * p
setTransform(sc, screenPos) ==
    Vec(NMul(screenPos.x, sc.scale), NMul(screenPos.y, sc.scale))

\* the CSS position of a pixel of the buffer: the buffer of physicsWidth x
\* physicsHeight pixels is shown on canvasWidth x canvasHeight CSS pixels
pixelToCss(sc, rect, phys) ==
    Vec(NAdd(rect.x, NDiv(NMul(phys.x, sc.canvasWidth), sc.physicsWidth)),
        NAdd(rect.y, NDiv(NMul(phys.y, sc.canvasHeight), sc.physicsHeight)))

\* the environments and the arguments
ParentSizes == {VecI(w, h) : w \in {3, 4}, h \in {2, 3}}
Dprs == {One, Num(2), NDiv(Num(3), Num(2))}
Modes == {IGNORE, EXPAND}
BaseSize == VecI(4, 3)
Rects == {VecI(0, 0), VecI(1, 0)}
ScreenPoints == {VecI(0, 0), VecI(1, 0), VecI(2, 3)}

\* a step of the scaler: the scaler after it, the canvas's corner, and for
\* a drawn point and its way back the point, where it is seen and the result
Scaling(op, sc, rect, s, css, out) ==
    [op |-> op, sc |-> sc, rect |-> rect, s |-> s, css |-> css, out |-> out]

\* the constructor calls resize()
InitScaler ==
    /\ objs = Scene
    /\ \E p \in ParentSizes, d \in Dprs, m \in Modes, r \in Rects :
          last = Scaling("new", resize(NewScaler(BaseSize.x, BaseSize.y, m), p.x, p.y, d),
                         r, VecI(0, 0), VecI(0, 0), VecI(0, 0))
    /\ calls = 0
    /\ mats = NoMats
    /\ assets = NewAssets
    /\ cam = NoCam
    /\ InitFrame

\* the window's resize event
Resize(p, d) ==
    /\ last.op = "new"
    /\ last' = [last EXCEPT !.op = "resize", !.sc = resize(last.sc, p.x, p.y, d)]
    /\ UNCHANGED <<objs, calls, mats, frameVars, assets, cam>>

\* the render pass draws the logical screen point s
Draw(s) ==
    /\ last.op \in {"new", "resize"}
    /\ last' = [last EXCEPT !.op = "draw", !.s = s,
                            !.css = pixelToCss(last.sc, last.rect,
                                               setTransform(last.sc, s))]
    /\ UNCHANGED <<objs, calls, mats, frameVars, assets, cam>>

\* a pointer event at the place where the point was drawn
CssToScreen ==
    /\ last.op = "draw"
    /\ last' = [last EXCEPT !.op = "cssToScreen",
                            !.out = cssToScreen(last.sc, last.rect, last.css)]
    /\ UNCHANGED <<objs, calls, mats, frameVars, assets, cam>>

NextScaler ==
    \/ \E p \in ParentSizes, d \in Dprs : Resize(p, d)
    \/ \E s \in ScreenPoints : Draw(s)
    \/ CssToScreen

SpecScaler == InitScaler /\ [][NextScaler]_vars

\* C22: cssToScreen applied to the CSS position at which the render pass
\* draws the logical screen point s returns s.
C22_CssToScreenInverts == last.op = "cssToScreen" => last.out = last.s

----------------------------------------------------------------------------
(* Matrix2D.invert *)

det(m) == NSub(NMul(m.a, m.d), NMul(m.b, m.c))

\* a number that is neither Infinity nor NaN
Finite(x) == x[2] # 0

\* C23: invert() on a matrix whose determinant a*d - b*c is 0 leaves the
\* identity, every component a finite number, whatever the translation.
C23_SingularToIdentity ==
    (mats # NoMats /\ mats.op = "invert" /\ det(mats.m) = Zero)
        => /\ mats.r = identity
           /\ \A f \in DOMAIN mats.r : Finite(mats.r[f])

\* a matrix of determinant 0 with a translation, inverted
C23_Witness ==
    /\ mats # NoMats
    /\ mats.op = "invert"
    /\ det(mats.m) = Zero
    /\ mats.m.a # Zero /\ mats.m.tx # Zero /\ mats.m.ty # Zero
    /\ mats.r = identity

\* C24: for a matrix M of nonzero determinant M.clone().invert().invert() has
\* the components of M, and M.clone().invert().transformPoint(
\* M.transformPoint(p)) = p.
C24_InvertInverts ==
    (mats # NoMats /\ det(mats.m) # Zero)
        => /\ mats.op = "invert.invert" => mats.r = mats.m
           /\ mats.op = "invert" =>
                 LET q == transformPoint(mats.m, mats.p.x, mats.p.y)
                 IN  transformPoint(mats.r, q.x, q.y) = mats.p

\* a matrix with a translation, four nonzero linear entries and a determinant
\* other than 1, inverted twice
C24_Witness ==
    /\ mats # NoMats
    /\ mats.op = "invert.invert"
    /\ det(mats.m) = Num(-2)
    /\ mats.m.tx # Zero /\ mats.m.ty # Zero
    /\ mats.r = mats.m

----------------------------------------------------------------------------
(* Vec2: division and normalization *)

\* a method called on a vector with a change callback: the vector
\* afterwards, the vector returned, the number of runs of the callback
Returned(v, out, fired) == [v |-> v, out |-> out, fired |-> fired]

\* a plausible slip: the result is stored in the vector itself
divideScalarInPlace(v, scalar) ==
    LET r == Vec2_set(v, IF scalar # Zero
                         THEN Vec(NDiv(v.x, scalar), NDiv(v.y, scalar))
                         ELSE VecI(0, 0))
    IN  Returned(r.v, r.v, r.fired)

\* Vec2.divideScalar: the result is a new vector, without a callback
divideScalar(v, scalar) ==
    IF scalar # Zero
    THEN Returned(v, Vec(NDiv(v.x, scalar), NDiv(v.y, scalar)), 0)
    ELSE Returned(v, VecI(0, 0), 0)

length(v) == Sqrt(NAdd(NMul(v.x, v.x), NMul(v.y, v.y)))

normalize(v) ==
    LET len == length(v)
    IN  IF NLt(Zero, len) THEN divideScalar(v, len) ELSE Returned(v, VecI(0, 0), 0)

\* the vectors and the divisors of the callers
Vectors == {VecI(x, y) : x \in -2..2, y \in -2..2} \cup {VecI(3, 4), VecI(-4, 3)}
Divisors == {Zero, One, Num(2), Num(-2)}

\* a call on a vector: the method, the vector before, the argument and
\* what the method left and returned
VecCall(op, of, k, r) == [op |-> op, of |-> of, k |-> k, r |-> r]

InitVec ==
    /\ objs = Fresh
    /\ last \in {VecCall("new", v, Zero, Returned(v, v, 0)) : v \in Vectors}
    /\ calls = 0
    /\ mats = NoMats
    /\ assets = NewAssets
    /\ cam = NoCam
    /\ InitFrame

DivideScalar(k) ==
    /\ last.op = "new"
    /\ last' = VecCall("divideScalar", last.of, k, divideScalar(last.of, k))
    /\ UNCHANGED <<objs, calls, mats, frameVars, assets, cam>>

\* normalize on the vectors whose length is a fraction
Normalize ==
    /\ last.op = "new"
    /\ HasSqrt(NAdd(NMul(last.of.x, last.of.x), NMul(last.of.y, last.of.y)))
    /\ last' = VecCall("normalize", last.of, Zero, normalize(last.of))
    /\ UNCHANGED <<objs, calls, mats, frameVars, assets, cam>>

NextVec ==
    \/ \E k \in Divisors : DivideScalar(k)
    \/ Normalize

SpecVec == InitVec /\ [][NextVec]_vars

\* C25: v.divideScalar(0) returns (0,0) for every vector v, and normalize()
\* of the zero vector returns (0,0); the components returned are finite
\* numbers, v is as it was and its change callback has not run.
C25_ZeroDivision ==
    ((last.op = "divideScalar" /\ last.k = Zero)
        \/ (last.op = "normalize" /\ last.of = VecI(0, 0)))
        => /\ last.r.out = VecI(0, 0)
           /\ Finite(last.r.out.x) /\ Finite(last.r.out.y)
           /\ last.r.v = last.of
           /\ last.r.fired = 0

\* a vector other than zero divided by 0
C25_Witness ==
    /\ last.op = "divideScalar"
    /\ last.k = Zero
    /\ last.of = VecI(3, 4)
    /\ last.r.out = VecI(0, 0)
    /\ last.r.v = VecI(3, 4)

\* the norms of the columns (a,b) and (c,d) of the matrix [[a,c,tx],[b,d,ty]]
ColumnNorms(m) ==
    Vec(Sqrt(NAdd(NMul(m.a, m.a), NMul(m.b, m.b))),
        Sqrt(NAdd(NMul(m.c, m.c), NMul(m.d, m.d))))

\* C26: globalScale returns the norms of the columns (a,b) and (c,d) of the
\* world matrix; for a node without a parent, with any rotation and any
\* scale (sx, sy) with sx, sy >= 0, it returns (sx, sy).
C26_GlobalScaleIsColumnNorms ==
    last.op = "globalScale"
        => /\ last.out = ColumnNorms(objs[last.n].worldTransform)
           /\ objs[last.n].parent = Null => last.out = objs[last.n]._scale

\* C27: with limit and smoothing disabled, for every zoom other than 0 and
\* every position of a camera (turned and scaled or not, its scale without a
\* zero component, alone or under a parent), worldToScreen maps the camera's
\* global position to the middle of the viewport when centering is enabled
\* and to (0,0) when it is disabled.
C27_CameraPositionOnScreen ==
    (~cam.limitEnabled /\ ~cam.useSmooth /\ cam.zoom # Zero
        /\ objs[Cam]._scale.x # Zero /\ objs[Cam]._scale.y # Zero)
        => worldToScreen(objs, cam, getGlobalPosition(objs, Cam).v)
               = IF cam.center THEN multiplyScalar(cam.viewport, Half)
                 ELSE VecI(0, 0)

\* a centering, zooming camera, turned and off the origin under a parent
C27_Witness ==
    /\ ~cam.limitEnabled /\ ~cam.useSmooth
    /\ cam.center
    /\ cam.zoom = Num(2)
    /\ cam.op = "update"
    /\ objs[Cam].parent = CamParent
    /\ objs[Cam]._position = VecI(3, 3)
    /\ objs[Cam]._rotation = 1
    /\ objs[Cam]._scale = VecI(2, 1)
    /\ getGlobalPosition(objs, Cam).v # VecI(0, 0)
    /\ worldToScreen(objs, cam, getGlobalPosition(objs, Cam).v) = VecI(1, 1)

----------------------------------------------------------------------------
(* The dirty flags of the tree *)

\* every call on the scene graph: assignments of local state, addChild, removeChild and destroy with any receiver and argument (the
\* rejected ones and the ones without effect too), transform reads
NextDirty ==
    \/ \E n, c \in Nodes : Tick /\ AddChild(n, c)
    \/ \E n, c \in Nodes : Tick /\ RemoveChild(n, c)
    \/ \E n \in Nodes : Tick /\ Destroy(n)
    \/ \E n \in Nodes : Tick /\ GetGlobalPosition(n)
    \/ \E n \in Nodes, v \in Points : Tick /\ SetPosition(n, v)
    \/ \E n \in Nodes, v \in Scales : Tick /\ SetScale(n, v)
    \/ \E n \in Nodes, q \in Rotations : Tick /\ SetRotation(n, q)

SpecDirty == InitTransform /\ [][NextDirty]_vars

\* the nodes below n by the children lists, which setDirty walks
RECURSIVE Below(_, _, _)
Below(h, n, depth) ==
    IF depth = 0 THEN {}
    ELSE UNION {{h[n].children[i]} \cup Below(h, h[n].children[i], depth - 1) :
                   i \in 1..Len(h[n].children)}

\* C28: in every reachable state every descendant of a dirty node is dirty,
\* by the parent references and by the children lists alike; a clean node
\* has only clean ancestors.
C28_DirtyDownward ==
    \A n \in Nodes :
        objs[n].isDirty
            => /\ \A d \in Nodes : isDescendantOf(objs, d, n) => objs[d].isDirty
               /\ \A d \in Below(objs, n, NumNodes) : objs[d].isDirty

\* a clean node above a dirty one that has a dirty child of its own
C28_Witness ==
    \E n, c, d \in Nodes :
        /\ objs[c].parent = n /\ objs[d].parent = c
        /\ ~objs[n].isDirty
        /\ objs[c].isDirty
        /\ objs[d].isDirty
        /\ objs[c].worldTransform # identity

\* the children list of n is in ascending childIndex
SortedChildren(h, n) ==
    \A i, j \in 1..Len(h[n].children) :
        i < j => h[h[n].children[i]]._childIndex <= h[h[n].children[j]]._childIndex

\* the node that the update pass has entered with this step, or Null
Entered ==
    IF game.pc = "update" /\ game'.pc = "update" /\ Len(game'.stack) > 0
         /\ game'.stack # game.stack
    THEN game'.stack[Len(game'.stack)].n
    ELSE Null

\* C29: a node whose child-order-dirty flag is false has its children list in
\* ascending childIndex; when the update pass has entered a node and run its
\* hook, the list it goes on to visit is in ascending childIndex, and children
\* of equal childIndex are in the order they had in the list before.
C29_ChildOrder ==
    /\ [](\A n \in Nodes : ~objs[n].childIndexDirty => SortedChildren(objs, n))
    /\ [][Entered # Null =>
             /\ SortedChildren(objs', Entered)
             /\ \A x, y \in Nodes :
                   ( /\ indexOf(objs'[Entered].children, x) > 0
                     /\ indexOf(objs'[Entered].children, x)
                            < indexOf(objs'[Entered].children, y)
                     /\ objs'[x]._childIndex = objs'[y]._childIndex
                     /\ indexOf(objs[Entered].children, x) > 0
                     /\ indexOf(objs[Entered].children, y) > 0 )
                   => indexOf(objs[Entered].children, x)
                          < indexOf(objs[Entered].children, y)]_vars

\* the update pass has entered the stage, whose hook gave a child another
\* childIndex, and the stage's children were put in another order
C29_Witness ==
    /\ game.pc = "update"
    /\ Len(game.stack) = 2
    /\ Len(log) = 3
    /\ log[3].ev = "reindex"
    /\ Len(objs[Stage].children) = 2
    /\ ~objs[Stage].childIndexDirty
    /\ objs[Stage].children[1] > objs[Stage].children[2]
    /\ objs[objs[Stage].children[1]]._childIndex
           < objs[objs[Stage].children[2]]._childIndex

\* the transform that the render loop installs for node n under the camera,
\* before the scaler's factor: viewMatrix.clone().append(obj.worldTransform)
finalTransform(h, cm, n) ==
    append(getViewMatrix(h, cm), updateTransform(h, n)[n].worldTransform)

\* C30: for every node and every camera the translation part of the
\* transform that the loop composes for the node is
\* camera.worldToScreen(node.globalPosition).
C30_DrawnWhereReported ==
    \A n \in Nodes :
        LET m == finalTransform(objs, cam, n)
        IN  Vec(m.tx, m.ty) = worldToScreen(objs, cam, getGlobalPosition(objs, n).v)

----------------------------------------------------------------------------
(* Matrix2D.translate, scale, rotate *)

\* C31: M.clone().translate(x,y), M.clone().scale(x,y) and M.clone().rotate(t)
\* equal M.clone().append(E), E being the identity after the same operation.
C31_PostMultiply ==
    (mats # NoMats /\ mats.op \in {"translate", "scale", "rotate"})
        => mats.r = append(mats.m, mats.o)

----------------------------------------------------------------------------
(* Visibility *)

NodesOf(ev) == {log[i].n : i \in EventsOf(ev)}

\* C32: a node is on the render queue if and only if its own visible flag is
\* true when the update pass visits it; every node below the stage, under
\* visible and invisible parents alike, is updated and given physics, and is
\* rendered if it is visible itself.
C32_VisibilityNotInherited ==
    /\ game.pc \in {"update", "physics", "render"}
          => \A n \in NodesOf("update") :
                objs[n].visible <=> \E i \in DOMAIN game.renderQueue :
                                        game.renderQueue[i] = n
    /\ (game.pc = "render" /\ game.ri = Len(game.renderQueue))
          => \A n \in Nodes :
                Attached(objs, n)
                    => /\ n \in NodesOf("update")
                       /\ n \in NodesOf("physics")
                       /\ n \in NodesOf("render") <=> objs[n].visible

\* a finished render pass in which the child of an invisible node was drawn
C32_Witness ==
    /\ game.pc = "render" /\ game.ri = Len(game.renderQueue)
    /\ \E n, c \in Nodes :
          /\ Attached(objs, n) /\ objs[c].parent = n
          /\ ~objs[n].visible /\ objs[c].visible
          /\ n \notin NodesOf("render")
          /\ c \in NodesOf("render")
          /\ c \in NodesOf("physics")

----------------------------------------------------------------------------
(* Hooks that detach their own node *)

\* every act in the log so far is a hook detaching its own node
OnlySelfDetach ==
    \A i \in DOMAIN log :
        log[i].ev \in {"hide", "detach", "reindex"}
            => /\ log[i].ev = "detach"
               /\ i > 1
               /\ log[i - 1].ev \in {"update", "physics"}
               /\ log[i - 1].n = log[i].n

Visits(ev, n) == Cardinality({i \in EventsOf(ev) : log[i].n = n})

\* C33: when the hooks of a pass have detached no node but their own, every
\* node that is below the stage when the pass is over has been visited
\* exactly once in it.
C33_SelfDetachSkipsNothing ==
    /\ (game.pc = "physics" /\ game.stack = RootCall /\ OnlySelfDetach)
          => \A n \in Nodes : Attached(objs, n) => Visits("update", n) = 1
    /\ (game.pc = "render" /\ game.ri = 0 /\ EventsOf("render") = {}
          /\ OnlySelfDetach)
          => \A n \in Nodes : Attached(objs, n) => Visits("physics", n) = 1

----------------------------------------------------------------------------
(* Hooks that change transforms *)

TransformActs ==
    {HookAct(do, n) : do \in {"move", "turn", "stretch"}, n \in Nodes}

\* frames whose update and physics hooks assign the position, the rotation
\* and the scale of any node of the scene
NextMoves ==
    \/ Tick /\ LoopBegin
    \/ UpdateHook(Idle) /\ UNCHANGED calls
    \/ \E a \in TransformActs : Tick /\ UpdateHook(a)
    \/ UpdateDone /\ UNCHANGED calls
    \/ PhysicsHook(Idle) /\ UNCHANGED calls
    \/ \E a \in TransformActs : Tick /\ PhysicsHook(a)
    \/ PhysicsDone /\ UNCHANGED calls
    \/ RenderStep /\ UNCHANGED calls
    \/ LoopEnd /\ UNCHANGED calls

SpecMoves == InitLoop /\ [][NextMoves]_vars

\* the world transform of n computed afresh from the local state of n and
\* of its ancestors
Recomputed(h, n) ==
    updateTransform([c \in Nodes |-> [h[c] EXCEPT !.isDirty = TRUE]], n)[n].worldTransform

\* C34: when the render pass starts, every node on the render queue that is
\* below the stage has its dirty flag clear and its worldTransform equal to
\* the one computed from the present position, rotation and scale of the node
\* and its ancestors.
C34_CleanAtRender ==
    (game.pc = "render" /\ game.ri = 0 /\ EventsOf("render") = {})
        => \A i \in DOMAIN game.renderQueue :
              LET n == game.renderQueue[i]
              IN  Attached(objs, n)
                    => /\ ~objs[n].isDirty
                       /\ objs[n].worldTransform = Recomputed(objs, n)

----------------------------------------------------------------------------
(* Game.destroy between two iterations *)

HookEvents == EventsOf("update") \cup EventsOf("physics") \cup EventsOf("render")

\* C35: when Game.destroy() was called between two calls of loop() (so that
\* alive is false in an iteration none of whose hooks destroyed the game), no
\* update, physics or render hook runs; the first call of loop() is made by
\* start() itself and is left aside.
C35_NoHookAfterDestroy ==
    (~game.alive /\ game.pc # "idle" /\ game.frame >= 1 /\ EventsOf("destroy") = {})
        => HookEvents = {}

----------------------------------------------------------------------------
(* Camera limit under zoom and scale *)

\* the world points shown at the top-left and bottom-right corners of the
\* logical viewport
ShownAtTopLeft == screenToWorld(objs, cam, VecI(0, 0))
ShownAtBottomRight == screenToWorld(objs, cam, cam.viewport)

\* the interval from a to b is inside the interval from lo to hi whenever it
\* is not longer
Fits(a, b, lo, hi) ==
    ~NLt(NSub(hi, lo), NSub(b, a)) => ~NLt(a, lo) /\ ~NLt(hi, b)

\* C36: with the limit enabled on an unturned, centered camera of zoom > 0
\* and any scale without a zero component, along each axis where the bound is
\* at least as long as the world region shown in the viewport, that region
\* lies inside the bound after onUpdate.
C36_ShownInsideBound ==
    ( /\ cam.op = "update" /\ cam.limitEnabled /\ cam.center
      /\ objs[Cam]._rotation = 0
      /\ NLt(Zero, cam.zoom)
      /\ NLt(Zero, objs[Cam]._scale.x) /\ NLt(Zero, objs[Cam]._scale.y) )
        => /\ Fits(ShownAtTopLeft.x, ShownAtBottomRight.x,
                   cam.limit.left, cam.limit.right)
           /\ Fits(ShownAtTopLeft.y, ShownAtBottomRight.y,
                   cam.limit.up, cam.limit.down)

----------------------------------------------------------------------------
(* AssetsManager: a resource that fails to load *)

\* a plausible slip: the failure of an item is kept from loadAll's promise
failSwallowed(a, t) == [a EXCEPT !.tasks[t].pc = "failed"]

\* the error callback of a load method (img.onerror, a rejected fetch): the
\* call is rejected, nothing is cached or emitted; the callback of loadAll's
\* map throws at `await loader`, and the first rejection rejects Promise.all
\* and with it loadAll
fail(a, t) ==
    [a EXCEPT !.tasks[t].pc = "failed",
              !.batch = IF a.tasks[t].inBatch /\ @ = "running" THEN "rejected" ELSE @]

\* the resource of call t cannot be loaded
Fail(t) ==
    /\ assets.tasks[t].pc = "fetch"
    /\ assets' = fail(assets, t)
    /\ UNCHANGED OtherVars

NextFailing ==
    \/ \E u \in Urls, k \in Names \cup {NoName} : Load(u, k)
    \/ \E items \in ItemLists(MaxTasks) : LoadAll(items)
    \/ \E t \in DOMAIN assets.tasks : Arrive(t)
    \/ \E t \in DOMAIN assets.tasks : Fail(t)
    \/ \E t \in DOMAIN assets.tasks : Settle(t)
    \/ Complete

SpecFailing == InitAssets /\ [][NextFailing]_vars

InBatch(pcs) ==
    {t \in DOMAIN assets.tasks : assets.tasks[t].inBatch /\ assets.tasks[t].pc \in pcs}

----------------------------------------------------------------------------
(* InputManager: the keydown and keyup events of the emitter *)

MaxEvents == 4

KeyEvent(type, code) == [type |-> type, code |-> code]

\* a plausible slip: every keydown of the browser is passed on
emitKeyDownAlways(inp, code) == <<KeyEvent("keydown", code)>>

\* what the keydown listener emits: nothing for a key that is down already
emitKeyDown(inp, code) ==
    IF code \notin inp.keysDown THEN <<KeyEvent("keydown", code)>> ELSE <<>>

\* what the keyup listener emits
emitKeyUp(inp, code) == <<KeyEvent("keyup", code)>>

\* the events that the browser has delivered and those that the emitter has
\* emitted, in order
Heard(events, emitted) == [op |-> "keys", events |-> events, emitted |-> emitted]

InitKeys ==
    /\ objs = Fresh
    /\ last = Heard(<<>>, <<>>)
    /\ calls = 0
    /\ mats = NoMats
    /\ assets = NewAssets
    /\ cam = NoCam
    /\ InitFrame

\* the browser delivers a keydown, the first of a press or an auto-repeat
BrowserKeyDown(code) ==
    /\ Len(last.events) < MaxEvents
    /\ input' = handleKeyDown(input, code)
    /\ last' = Heard(Append(last.events, KeyEvent("keydown", code)),
                     last.emitted \o emitKeyDown(input, code))
    /\ UNCHANGED <<objs, calls, mats, game, hist, log, assets, cam>>

\* the browser delivers a keyup
BrowserKeyUp(code) ==
    /\ Len(last.events) < MaxEvents
    /\ input' = handleKeyUp(input, code)
    /\ last' = Heard(Append(last.events, KeyEvent("keyup", code)),
                     last.emitted \o emitKeyUp(input, code))
    /\ UNCHANGED <<objs, calls, mats, game, hist, log, assets, cam>>

NextKeys ==
    \/ \E code \in Keys : BrowserKeyDown(code)
    \/ \E code \in Keys : BrowserKeyUp(code)

SpecKeys == InitKeys /\ [][NextKeys]_vars

\* the positions in s of the events of a type and a code
At(s, type, code) == {i \in DOMAIN s : s[i] = KeyEvent(type, code)}

\* C38: for every key code, any two keydown events that the emitter emits are
\* separated by a keyup event of that code, and isKeyDown(code) is true
\* exactly when the browser has delivered a keydown of the code and no keyup
\* of it since.
C38_OneKeyDownPerPress ==
    \A code \in Keys :
        /\ \A i, j \in At(last.emitted, "keydown", code) :
              i < j => \E k \in At(last.emitted, "keyup", code) : i < k /\ k < j
        /\ isKeyDown(input, code)
              <=> \E i \in At(last.events, "keydown", code) :
                     \A k \in At(last.events, "keyup", code) : k < i

\* a key was pressed, repeated while held, released and pressed again: the
\* emitter emitted keydown, keyup, keydown
C38_Witness ==
    \E code \in Keys :
        /\ last.events = <<KeyEvent("keydown", code), KeyEvent("keydown", code),
                           KeyEvent("keyup", code), KeyEvent("keydown", code)>>
        /\ last.emitted = <<KeyEvent("keydown", code), KeyEvent("keyup", code),
                            KeyEvent("keydown", code)>>
        /\ isKeyDown(input, code)

----------------------------------------------------------------------------
(* The numbers of CanvasScaler.resize as IEEE 754 doubles *)

\* natural numbers of any size: the digits to the base Base, lowest first,
\* the highest one not 0. Every operator takes the values of its arguments
\* once, with The({... : x \in {a}}), before it works on them.
Base == 32768
DigitBits == 15

RECURSIVE Pow2(_)
Pow2(k) == IF k = 0 THEN 1 ELSE 2 * Pow2(k - 1)

RECURSIVE BNorm(_)
BNorm(a) ==
    IF a = <<>> THEN a
    ELSE IF a[Len(a)] = 0 THEN BNorm(SubSeq(a, 1, Len(a) - 1)) ELSE a

RECURSIVE BFromInt(_)
BFromInt(n) == IF n = 0 THEN <<>> ELSE <<n % Base>> \o BFromInt(n \div Base)

Digit(a, i) == IF i >= 1 /\ i <= Len(a) THEN a[i] ELSE 0

RECURSIVE addFrom(_, _, _, _)
addFrom(a, b, i, carry) ==
    IF i > Len(a) /\ i > Len(b)
    THEN IF carry = 0 THEN <<>> ELSE <<carry>>
    ELSE The({<<s % Base>> \o addFrom(a, b, i + 1, s \div Base) :
                 s \in {Digit(a, i) + Digit(b, i) + carry}})

BAdd(a, b) == The({addFrom(x, y, 1, 0) : x \in {a}, y \in {b}})

\* a - b for a >= b
RECURSIVE subFrom(_, _, _, _)
subFrom(a, b, i, borrow) ==
    IF i > Len(a) THEN <<>>
    ELSE The({IF s < 0 THEN <<s + Base>> \o subFrom(a, b, i + 1, 1)
              ELSE <<s>> \o subFrom(a, b, i + 1, 0) :
                 s \in {Digit(a, i) - Digit(b, i) - borrow}})

BSub(a, b) == The({BNorm(subFrom(x, y, 1, 0)) : x \in {a}, y \in {b}})

\* -1, 0 or 1 as a is below, equal to or above b
RECURSIVE cmpFrom(_, _, _)
cmpFrom(a, b, i) ==
    IF i = 0 THEN 0
    ELSE IF a[i] < b[i] THEN -1
    ELSE IF a[i] > b[i] THEN 1
    ELSE cmpFrom(a, b, i - 1)

BCmp(a, b) ==
    The({IF Len(x) < Len(y) THEN -1
         ELSE IF Len(x) > Len(y) THEN 1
         ELSE cmpFrom(x, y, Len(x)) : x \in {a}, y \in {b}})

\* a * k for a digit k
RECURSIVE mulFrom(_, _, _, _)
mulFrom(a, k, i, carry) ==
    IF i > Len(a)
    THEN IF carry = 0 THEN <<>> ELSE <<carry>>
    ELSE The({<<s % Base>> \o mulFrom(a, k, i + 1, s \div Base) :
                 s \in {a[i] * k + carry}})

BMulDigit(a, k) ==
    The({IF y = 0 THEN <<>> ELSE mulFrom(x, y, 1, 0) : x \in {a}, y \in {k}})

BShiftDigits(a, k) ==
    The({IF x = <<>> THEN x ELSE [i \in 1..k |-> 0] \o x : x \in {a}})

RECURSIVE mulSum(_, _, _)
mulSum(a, b, i) ==
    IF i > Len(b) THEN <<>>
    ELSE BAdd(BShiftDigits(BMulDigit(a, b[i]), i - 1), mulSum(a, b, i + 1))

BMul(a, b) == The({mulSum(x, y, 1) : x \in {a}, y \in {b}})

\* a * 2^k and the whole part of a / 2^k
BShl(a, k) ==
    The({BMulDigit(BShiftDigits(a, j \div DigitBits), Pow2(j % DigitBits)) :
            j \in {k}})

BShr(a, k) ==
    The({IF d >= Len(x) THEN <<>>
         ELSE BNorm([i \in 1..(Len(x) - d) |->
                        (x[i + d] \div p)
                            + (Digit(x, i + d + 1) % p) * (Base \div p)]) :
            x \in {a}, d \in {k \div DigitBits}, p \in {Pow2(k % DigitBits)}})

RECURSIVE IntBits(_)
IntBits(n) == IF n = 0 THEN 0 ELSE 1 + IntBits(n \div 2)

\* the number of binary digits of a
BitLen(a) ==
    The({IF x = <<>> THEN 0 ELSE (Len(x) - 1) * DigitBits + IntBits(x[Len(x)]) :
            x \in {a}})

\* the binary digit of a that counts 2^i
Bit(a, i) == (Digit(a, i \div DigitBits + 1) \div Pow2(i % DigitBits)) % 2

\* one step of the division: the next binary digit of the quotient
divStep(d, bit, q, r) ==
    The({IF BCmp(r1, d) >= 0
         THEN [q |-> BAdd(q1, <<1>>), r |-> BSub(r1, d)]
         ELSE [q |-> q1, r |-> r1] :
            r1 \in {BAdd(BAdd(r, r), BFromInt(bit))}, q1 \in {BAdd(q, q)}})

\* the steps for the binary digits i, i - 1, ... j of n
RECURSIVE divBits(_, _, _, _, _)
divBits(n, d, i, j, k) ==
    IF i < j THEN k
    ELSE The({divBits(n, d, i - 1, j, k1) : k1 \in {divStep(d, Bit(n, i), k.q, k.r)}})

\* the steps for the binary digits i, i - 1, ... 0 of n, a digit's worth of
\* them at a time
RECURSIVE divFrom(_, _, _, _)
divFrom(n, d, i, k) ==
    IF i < 0 THEN k
    ELSE The({divFrom(n, d, i - DigitBits, k1) :
                 k1 \in {divBits(n, d, i,
                                 IF i >= DigitBits THEN i - DigitBits + 1 ELSE 0, k)}})

\* the quotient and the remainder of n by d > 0: the leading binary digits
\* of n that are fewer than those of d give the quotient 0 and themselves as
\* the remainder, the division goes on from there
BDivMod(n, d) ==
    The({The({The({divFrom(x, y, rest - 1, k) : k \in {[q |-> <<>>, r |-> BShr(x, rest)]}}) :
                 rest \in {IF BitLen(x) >= BitLen(y)
                           THEN BitLen(x) - BitLen(y) + 1 ELSE 0}}) :
            x \in {n}, y \in {d}})

\* the quotient and the remainder of n * 2^s by d, for s of either sign
scaledDivMod(n, d, s) ==
    IF d = <<1>>
    THEN IF s >= 0 THEN [q |-> BShl(n, s), r |-> <<>>]
         ELSE The({[q |-> q, r |-> BSub(n, BShl(q, 0 - s))] : q \in {BShr(n, 0 - s)}})
    ELSE IF s >= 0 THEN BDivMod(BShl(n, s), d)
    ELSE BDivMod(n, BShl(d, 0 - s))

\* a double other than an infinity, a NaN or a subnormal: sg * m * 2^e with
\* sg in {-1, 0, 1} and, unless sg is 0, 2^52 <= m < 2^53
Significand == 53

Double(sg, m, e) == [sg |-> sg, m |-> m, e |-> e]

DZero == Double(0, <<>>, 0)

\* q, of t binary digits more than a significand has, and a remainder r of
\* the division that gave q: the significand nearest to q / 2^t, ties to even
roundOff(q, r, t) ==
    The({The({IF \/ c > 0
                 \/ c = 0 /\ r # <<>>
                 \/ c = 0 /\ r = <<>> /\ Bit(m0, 0) = 1
              THEN BAdd(m0, <<1>>) ELSE m0 :
                 c \in {BCmp(BSub(q, BShl(m0, t)), BShl(<<1>>, t - 1))}}) :
            m0 \in {BShr(q, t)}})

\* the double nearest to sg * (n / d) * 2^e for n, d > 0, ties to even
Nearest(sg, n, d, e) ==
    The({The({The({The({IF BitLen(m) > Significand
                        THEN Double(sg, BShr(m, 1), t - s + e + 1)
                        ELSE Double(sg, m, t - s + e) :
                           m \in {roundOff(dm.q, dm.r, t)}}) :
                      t \in {BitLen(dm.q) - Significand}}) :
                 dm \in {scaledDivMod(x, y, s)}}) :
            x \in {n}, y \in {d}, s \in {Significand + 1 - (BitLen(n) - BitLen(d))}})

\* the double of an integer and of a decimal literal n / d
DInt(n) == IF n = 0 THEN DZero ELSE Nearest(1, BFromInt(n), <<1>>, 0)
DRat(n, d) == IF n = 0 THEN DZero ELSE Nearest(1, BFromInt(n), BFromInt(d), 0)

\* x * y and x / y (y other than 0)
DMul(x, y) ==
    The({IF a.sg = 0 \/ b.sg = 0 THEN DZero
         ELSE Nearest(a.sg * b.sg, BMul(a.m, b.m), <<1>>, a.e + b.e) :
            a \in {x}, b \in {y}})

DDiv(x, y) ==
    The({IF a.sg = 0 THEN DZero ELSE Nearest(a.sg * b.sg, a.m, b.m, a.e - b.e) :
            a \in {x}, b \in {y}})

\* -1, 0 or 1 as |x| is below, equal to or above |y|, for x, y other than 0
DCmpAbs(x, y) ==
    The({IF a.e >= b.e THEN BCmp(BShl(a.m, a.e - b.e), b.m)
         ELSE BCmp(a.m, BShl(b.m, b.e - a.e)) :
            a \in {x}, b \in {y}})

\* x < y and x - y for x, y >= 0
DLt(x, y) ==
    The({IF b.sg = 0 THEN FALSE
         ELSE IF a.sg = 0 THEN TRUE
         ELSE DCmpAbs(a, b) < 0 :
            a \in {x}, b \in {y}})

DSub(x, y) ==
    The({IF v.sg = 0 THEN u
         ELSE IF u.sg = 0 THEN Double(0 - v.sg, v.m, v.e)
         ELSE The({The({IF c = 0 THEN DZero
                        ELSE IF c > 0 THEN Nearest(1, BSub(a, b), <<1>>, e)
                        ELSE Nearest(-1, BSub(b, a), <<1>>, e) :
                           c \in {BCmp(a, b)}}) :
                      a \in {BShl(u.m, u.e - (IF u.e < v.e THEN u.e ELSE v.e))},
                      b \in {BShl(v.m, v.e - (IF u.e < v.e THEN u.e ELSE v.e))},
                      e \in {IF u.e < v.e THEN u.e ELSE v.e}}) :
            u \in {x}, v \in {y}})

\* x / 2
DHalf(x) == The({IF a.sg = 0 THEN a ELSE Double(a.sg, a.m, a.e - 1) : a \in {x}})

\* Math.round for x >= 0: the whole part of x + 1/2
DRound(x) ==
    The({IF a.sg = 0 \/ a.e >= 0 THEN a
         ELSE The({IF n = <<>> THEN DZero ELSE Nearest(1, n, <<1>>, 0) :
                      n \in {BShr(BAdd(a.m, BShl(<<1>>, 0 - a.e - 1)), 0 - a.e)}}) :
            a \in {x}})

\* a plausible slip: the larger of the two factors is taken
DMax(x, y) == The({IF DLt(b, a) THEN a ELSE b : a \in {x}, b \in {y}})

\* Math.min
DMin(x, y) == The({IF DLt(b, a) THEN b ELSE a : a \in {x}, b \in {y}})

\* the next double above x > 0
DNext(x) == The({Nearest(1, BAdd(a.m, <<1>>), <<1>>, a.e) : a \in {x}})

\* x <= y for x, y >= 0
DLe(x, y) == ~DLt(y, x)

\* the fields of the scaler that resize() computes, as doubles
NewScaler64(baseWidth, baseHeight, mode) ==
    [ width         |-> DInt(baseWidth),
      height        |-> DInt(baseHeight),
      mode          |-> mode,
      logicalWidth  |-> DInt(baseWidth),
      logicalHeight |-> DInt(baseHeight),
      physicsWidth  |-> DInt(baseWidth),
      physicsHeight |-> DInt(baseHeight),
      scale         |-> DInt(1),
      offsetX       |-> DZero,
      offsetY       |-> DZero ]

\* CanvasScaler.resize, every operation rounded as JavaScript rounds it
resize64(scaler, parentWidth, parentHeight, dpr) ==
    The({The({The({[sc EXCEPT
                       !.physicsWidth = physicsWidth,
                       !.physicsHeight = physicsHeight,
                       !.logicalWidth = logical.w,
                       !.logicalHeight = logical.h,
                       !.scale = s,
                       !.offsetX = DHalf(DSub(physicsWidth, DMul(sc.width, s))),
                       !.offsetY = DHalf(DSub(physicsHeight, DMul(sc.height, s)))] :
                    s \in {DMin(DDiv(physicsWidth, logical.w),
                                DDiv(physicsHeight, logical.h))}}) :
                 logical \in {IF sc.mode = EXPAND
                              THEN IF DLt(baseRatioExp, parentRatioExp)
                                   THEN [w |-> DMul(sc.height, parentRatioExp),
                                         h |-> sc.height]
                                   ELSE [w |-> sc.width,
                                         h |-> DDiv(sc.width, parentRatioExp)]
                              ELSE [w |-> physicsWidth, h |-> physicsHeight]}}) :
            sc \in {scaler},
            baseRatioExp \in {DDiv(scaler.width, scaler.height)},
            parentRatioExp \in {DDiv(parentWidth, parentHeight)},
            physicsWidth \in {DRound(DMul(parentWidth, dpr))},
            physicsHeight \in {DRound(DMul(parentHeight, dpr))}})

\* the base size of the game, the containers in CSS pixels at construction
\* and after a resize event, and the displays
BaseSize64 == [x |-> 800, y |-> 600]
FirstSize64 == [x |-> 64, y |-> 48]
ParentSizes64 ==
    {[x |-> w, y |-> h] : w \in {57, 64, 78, 100, 120}, h \in {34, 48, 56, 75}}
Dprs64 == {DInt(1), DRat(3, 2), DInt(2)}

Sized(op, sc) == [op |-> op, sc |-> sc]

\* the constructor calls resize()
InitResize ==
    /\ objs = Scene
    /\ \E m \in Modes, d \in Dprs64 :
          last = Sized("new", resize64(NewScaler64(BaseSize64.x, BaseSize64.y, m),
                                       DInt(FirstSize64.x), DInt(FirstSize64.y), d))
    /\ calls = 0
    /\ mats = NoMats
    /\ assets = NewAssets
    /\ cam = NoCam
    /\ InitFrame

\* the window's resize event
Resize64(p, d) ==
    /\ last.op = "new"
    /\ last' = Sized("resize", resize64(last.sc, DInt(p.x), DInt(p.y), d))
    /\ UNCHANGED <<objs, calls, mats, frameVars, assets, cam>>

NextResize ==
    \/ \E p \in ParentSizes64, d \in Dprs64 : Resize64(p, d)

SpecResize == InitResize /\ [][NextResize]_vars

\* what C39 says of the scale and of the logical size
ScaleAndLogical(sc) ==
    /\ sc.scale = DMin(DDiv(sc.physicsWidth, sc.logicalWidth),
                       DDiv(sc.physicsHeight, sc.logicalHeight))
    /\ DLe(sc.width, sc.logicalWidth)
    /\ DLe(sc.height, sc.logicalHeight)
    /\ sc.logicalWidth = sc.width \/ sc.logicalHeight = sc.height

\* the distance from x > 0 to the next double above it
Ulp(x) == DSub(DNext(x), x)

\* C39 as claimed: after resize() in EXPAND mode scale is the smaller of
\* physicsWidth / logicalWidth and physicsHeight / logicalHeight, the logical
\* size is at least the base size and equal to it along one axis,
\* width * scale <= physicsWidth, height * scale <= physicsHeight and both
\* offsets are >= 0.
C39_ExpandFits ==
    last.sc.mode = EXPAND
        => /\ ScaleAndLogical(last.sc)
           /\ DLe(DMul(last.sc.width, last.sc.scale), last.sc.physicsWidth)
           /\ DLe(DMul(last.sc.height, last.sc.scale), last.sc.physicsHeight)
           /\ last.sc.offsetX.sg >= 0
           /\ last.sc.offsetY.sg >= 0

\* C39 amended: the same of the scale and of the logical size; width * scale
\* and height * scale, rounded products, are at most the next double above
\* physicsWidth and physicsHeight, and an offset is >= 0 or a negative number
\* of at most half that distance.
C39_ExpandFitsRounded ==
    last.sc.mode = EXPAND
        => /\ ScaleAndLogical(last.sc)
           /\ DLe(DMul(last.sc.width, last.sc.scale), DNext(last.sc.physicsWidth))
           /\ DLe(DMul(last.sc.height, last.sc.scale), DNext(last.sc.physicsHeight))
           /\ \/ last.sc.offsetX.sg >= 0
              \/ DCmpAbs(last.sc.offsetX, DHalf(Ulp(last.sc.physicsWidth))) <= 0
           /\ \/ last.sc.offsetY.sg >= 0
              \/ DCmpAbs(last.sc.offsetY, DHalf(Ulp(last.sc.physicsHeight))) <= 0

\* a resize in EXPAND mode to a container wider than the base area, after
\* which height * scale is above physicsHeight and offsetY is below 0
C39_Witness ==
    /\ last.op = "resize"
    /\ last.sc.mode = EXPAND
    /\ DLt(last.sc.width, last.sc.logicalWidth)
    /\ last.sc.logicalHeight = last.sc.height
    /\ DLt(last.sc.physicsHeight, DMul(last.sc.height, last.sc.scale))
    /\ last.sc.offsetY.sg = -1
    /\ last.sc.offsetX.sg = 1

====
